---- MODULE Spec2Model ----
(***************************************************************************)
(* The frame synthesizer of the CCD reduction guide: the notebook session  *)
(* that owns the shared generator noise_rng and the functions read_noise,  *)
(* bias, dark_current and sky_background that build the layers of an       *)
(* artificial image.                                                       *)
(*                                                                         *)
(* Python floats are exact rationals <<num, den>> here.  For the inputs    *)
(* the model draws, int() of the float products the code forms (0.1*value, *)
(* 0.0001*x_max*y_max, 10000*current*exposure_time/gain) equals the        *)
(* truncation of the exact product.                                        *)
(***************************************************************************)
EXTENDS Integers, Sequences, FiniteSets, TLC

VARIABLES GUIDE_RANDOM_SEED, noise_rng, out, calls, hist, kept, ns

vars == <<GUIDE_RANDOM_SEED, noise_rng, out, calls, hist, kept, ns>>

---------------------------------------------------------------------------
(* Bounds of the model.                                                    *)

\* calls of the synthesizer functions made in one session
MaxCalls == 2

\* distinct values the operating system's entropy can seed an unseeded
\* generator with
MaxEntropy == 2

---------------------------------------------------------------------------
(* Numbers.                                                                *)

Abs(a) == IF a < 0 THEN -a ELSE a

RECURSIVE GCD(_, _)
GCD(a, b) == IF b = 0 THEN a ELSE GCD(b, a % b)

\* the rational n/d, reduced, with a positive denominator
Rat(n, d) ==
    LET s == IF d < 0 THEN -1 ELSE 1
        g == GCD(Abs(n), Abs(d))
    IN  <<(s * n) \div g, (s * d) \div g>>

FromInt(n) == <<n, 1>>

RAdd(a, b) == Rat(a[1] * b[2] + b[1] * a[2], a[2] * b[2])

RMul(a, b) == Rat(a[1] * b[1], a[2] * b[2])

RDiv(a, b) == Rat(a[1] * b[2], a[2] * b[1])

RLess(a, b) == a[1] * b[2] < b[1] * a[2]

\* int(x), and the cast of a float stored into an int64 array: toward zero
Trunc(a) == IF a[1] >= 0 THEN a[1] \div a[2] ELSE -((-a[1]) \div a[2])

---------------------------------------------------------------------------
(* Arrays.  An array is its shape <<height, width>>, its dtype, the values *)
(* it was created with (fill) and the item assignments made to it since:   *)
(* whole columns (cols, colval) and single pixels (pts, ptval).  A fill is *)
(* a constant, or the variates a generator produced from a given state     *)
(* with a given parameter, divided by div.                                 *)

NoRng == [seeded |-> FALSE, key |-> 0, pos |-> 0]

Const(shape, dtype, v) ==
    [shape |-> shape, dtype |-> dtype, kind |-> "const", val |-> v,
     from |-> NoRng, div |-> FromInt(1),
     cols |-> {}, colval |-> <<>>, pts |-> {}, ptval |-> FromInt(0)]

Drawn(shape, dtype, kind, rng, par) ==
    [shape |-> shape, dtype |-> dtype, kind |-> kind, val |-> par,
     from |-> rng, div |-> FromInt(1),
     cols |-> {}, colval |-> <<>>, pts |-> {}, ptval |-> FromInt(0)]

\* np.zeros([height, width])
zeros(shape) == Const(shape, "float64", FromInt(0))

zeros_like(image) == Const(image.shape, image.dtype, FromInt(0))

\* what is returned when the call raised
NoArray == Const(<<0, 0>>, "none", FromInt(0))

Size(shape) == shape[1] * shape[2]

\* a value as the array's dtype stores it
Cast(dtype, v) == IF dtype = "int64" THEN FromInt(Trunc(v)) ELSE v

\* array[(ys, xs)] = v
SetPixels(a, positions, v) ==
    IF positions = {} THEN a
    ELSE [a EXCEPT !.pts = positions, !.ptval = Cast(a.dtype, v)]

\* array[:, c] = column, for every c of columns
SetColumns(a, columns, column) ==
    [a EXCEPT !.cols = columns, !.colval = column]

\* array / g
Divide(a, g) ==
    IF a.kind = "const"
    THEN [a EXCEPT !.dtype = "float64", !.val = RDiv(@, g)]
    ELSE [a EXCEPT !.dtype = "float64", !.div = RMul(@, g)]

\* the pixels of an array
Pixels(a) == (0 .. a.shape[1] - 1) \X (0 .. a.shape[2] - 1)

\* array[y, x]: the number stored there, or for a pixel still holding a
\* variate, which variate of which generator state it is
Pixel(a, y, x) ==
    LET number(v) == [drawn |-> FALSE, val |-> v, kind |-> "const",
                      from |-> NoRng, index |-> 0, div |-> FromInt(1)]
    IN  IF <<y, x>> \in a.pts THEN number(a.ptval)
        ELSE IF x \in a.cols THEN number(a.colval[y + 1])
        ELSE IF a.kind = "const" THEN number(a.val)
        ELSE [drawn |-> TRUE, val |-> a.val, kind |-> a.kind, from |-> a.from,
              index |-> y * a.shape[2] + x, div |-> a.div]

---------------------------------------------------------------------------
(* numpy's legacy generator, np.random.RandomState(seed): the Mersenne     *)
(* Twister.  MT19937(seed) holds the low 16 bits of its first 32-bit       *)
(* outputs for the two seeds the notebook uses; randint only reads the     *)
(* bits under its mask, which is below 2^16 for every image here.          *)

MT19937(seed) ==
    IF seed = 16201649 THEN
    <<
       45304, 28106, 31114, 51596, 10095, 29433, 59687, 59981, 38266, 64733, 5177, 25394,
       16148, 27744, 50674, 8538, 12887, 15385, 53618, 35861, 44012, 15673, 26034, 56145,
       22398, 328, 15407, 1626, 27078, 34936, 17312, 49102, 24959, 43877, 63941, 50159,
       60190, 46523, 40274, 38857, 7050, 50858, 58201, 63615, 40045, 1044, 27742, 7922,
       15171, 42373, 6223, 64252, 37765, 50449, 12657, 64942, 29817, 60334, 26977, 64231,
       15657, 1507, 46251, 44842, 23123, 16338, 65143, 46498, 48535, 31230, 16635, 59373,
       32537, 10817, 3023, 52569, 51221, 45033, 693, 49060, 4552, 59341, 6205, 26328,
       4659, 35939, 27470, 64749, 56830, 5249, 38219, 41525, 42565, 46274, 5210, 63255,
       17361, 6395, 45995, 45883, 20595, 38458, 58093, 55537, 18627, 44366, 11917, 38995,
       45129, 59921, 14201, 10920, 31816, 51050, 44279, 43346, 13871, 52771, 8023, 50079,
       46498, 63557, 55335, 15295, 35482, 32685, 28523, 8520, 49134, 35975, 51281, 21672,
       11878, 63871, 18178, 36533, 436, 46089, 25961, 61688, 36549, 4791, 42469, 24301,
       31367, 2115, 30530, 52671, 16610, 15191, 23505, 63994, 43817, 63677, 45443, 2516,
       17914, 47812, 21759, 64495, 62980, 27623, 15230, 48136, 60031, 7630, 59853, 33774
    >>
    ELSE IF seed = 8392 THEN
    <<
       16134, 15466, 63276, 44234, 50267, 48932, 29609, 32646, 34247, 16248, 24837, 407,
       71, 23238, 40619, 17162, 39141, 59730, 39569, 19385, 35229, 3356, 29678, 52002,
       29785, 41625, 47957, 15536, 809, 236, 52444, 1069, 17148, 32143, 49900, 3316,
       55918, 38536, 23592, 30327, 31090, 8725, 25459, 63940, 11957, 62226, 20926, 55941,
       26830, 2114, 20218, 61757, 30559, 286, 35489, 46146, 45702, 41472, 49517, 54967,
       59336, 32904, 48609, 56039, 33533, 17171, 45214, 8025, 63544, 56013, 54355, 39390,
       63999, 27498, 45802, 16178, 21016, 34945, 26059, 22191, 54692, 34475, 34685, 8899,
       5373, 20884, 16019, 26734, 62175, 27633, 60579, 31045, 13302, 60142, 44839, 12306,
       56125, 40314, 52776, 30243, 25771, 20716, 6503, 9297, 12619, 41711, 22188, 28821,
       22915, 50757, 21066, 53683, 23507, 22017, 45646, 31230, 10631, 6810, 59098, 47958,
       16410, 27640, 27901, 31959, 14031, 50988, 28135, 65154, 1562, 16593, 40745, 39445,
       14310, 40653, 41984, 19881, 32277, 10984, 64284, 37501, 26204, 49254, 45730, 46161,
       31091, 39422, 32970, 31585, 30452, 15733, 51089, 38586, 11290, 3960, 23874, 34399,
       44771, 49694, 27248, 18128, 29069, 18960, 4905, 25969, 15373, 21132, 4157, 46124,
       15828, 13028, 36180, 58486, 58028, 18363, 50798, 5508, 61087, 14199, 27541, 13866,
       45334, 25575, 26824, 42998, 41731, 21408, 50738, 44666, 15798, 34570, 15558, 2860,
       11085, 29065, 26995, 7401, 2684, 43235, 6989, 14179, 63040, 44028, 43748, 28938,
       36720, 19913, 44240, 59828, 54516, 63179, 6876, 23166, 17495, 1619, 17451, 59983,
       57854, 21830, 8991, 22356, 57206, 15651, 19880, 37919, 17063, 61883, 58140, 14902,
       21538, 11942, 38913, 41808, 37046, 31052, 63434, 56488, 19881, 29474, 41799, 23065,
       36238, 30427, 31732, 43512, 50848, 55094, 3236, 4883, 18883, 48273, 3831, 53442,
       55752, 34805, 34049, 8755, 3590, 48756, 28387, 60505, 48184, 16490, 41598, 16247,
       37560, 37499, 35226, 57737, 34049, 8905, 33036, 7173, 27937, 3146, 16348, 22220,
       63061, 11976, 52904, 4815, 39801, 46819, 2884, 25103, 44526, 34741, 18336, 5208,
       11644, 58360, 797, 22104, 22007, 13227, 56043, 22396, 33447, 64422, 37665, 28778,
       49265, 56963, 20033, 8628, 57585, 52221, 43557, 56288, 9824, 7864, 1320, 51111,
       64565, 53232, 3227, 37093, 47519, 53526, 61467, 54701, 1527, 1895, 63245, 58619,
       50358, 58611, 44606, 40473, 45104, 37145, 2298, 10441, 34211, 63102, 8550, 61826,
       60957, 38482, 12353, 16762, 50736, 45292, 54378, 26557, 25001, 31586, 1193, 61517,
       34918, 24078, 46313, 22235, 17174, 23472, 13192, 53736, 13861, 26912, 63483, 62732,
       34302, 32789, 25073, 6736, 36384, 64157, 25914, 55194, 40145, 28068, 20640, 40142,
       24575, 52569, 18844, 23700, 3512, 40636, 60764, 24112, 28570, 18010, 49557, 31246,
       50919, 42087, 2202, 9677, 54277, 59206, 17754, 55696, 15637, 4712, 16523, 7639,
       29901, 6968, 45841, 17151, 48952, 16798, 3526, 2444, 61151, 18756, 54048, 18837,
       38729, 10171, 43612, 1134, 14347, 19437, 55037, 25662, 36810, 13884, 37824, 27823,
       58114, 21530, 7394, 33089, 48159, 595, 678, 38713, 63329, 42612, 42804, 35012,
       61077, 22772, 53098, 38119, 13980, 21898, 60603, 44877, 25818, 45360, 14630, 17917,
       29991, 51472, 15351, 62477, 47375, 26543, 6473, 5259, 60524, 40615, 46129, 20801,
       3521, 2281, 58802, 24397, 64963, 52611, 7734, 58421, 62298, 47623, 4038, 26207,
       39920, 62863, 34208, 47740, 49039, 33285, 59897, 31309, 46382, 46370, 50895, 30717,
       6304, 56143, 34594, 32399, 11546, 24962, 18384, 19964, 12421, 37919, 29958, 3613,
       59146, 36170, 14666, 48666, 4899, 40508, 23577, 57702, 18063, 10041, 59680, 56900,
       732, 34754, 16816, 53139, 2913, 47490, 56909, 59181, 12843, 31467, 53587, 4155,
       1297, 44970, 2187, 47787, 37556, 53468, 46831, 22461, 63873, 46992, 37651, 61398,
       39372, 47443, 19654, 42189, 62609, 56428, 38230, 45125, 21906, 16427, 14642, 50162,
       58380, 34086, 6857, 59362, 46628, 47670, 26659, 33157, 34117, 51176, 451, 34308,
       63257, 6823, 31924, 25113, 13925, 62068, 33840, 11072, 48365, 52271, 24261, 40785,
       40634, 30479, 38757, 11809, 61393, 63940, 16896, 59095, 5962, 45226, 15424, 19987,
       7938, 21622, 1199, 40816, 13770, 40568, 24094, 59580, 47784, 60900, 20488, 23104,
       321, 51275, 57780, 51807, 25623, 18717, 27794, 40190, 37720, 11392, 26570, 16540,
       9132, 5031, 26977, 9753, 21505, 5607, 28051, 20970, 52127, 3036, 3462, 31010,
       56187, 43570, 31504, 31643, 9029, 21487, 46584, 23082, 48140, 41573, 52836, 28745,
       57504, 4414, 8094, 63803, 1783, 26690, 64091, 17528, 33556, 27046, 7523, 7214,
       7697, 21358, 33610, 61238, 28417, 37733, 4966, 57508, 54847, 5252, 53326, 34773,
       27918, 6407, 53486, 47420, 29072, 63663, 26839, 24141, 29078, 43705, 61839, 19052,
       53231, 52134, 42453, 19998, 12839, 64812, 49641, 58181, 13248, 8597, 50794, 13267
    >>
    ELSE <<>>

\* mutant of RandomState: a generator that is not created anew, and stands
\* where the draws made before in the session left it
StaleRandomState(seed) == [seed |-> seed, pos |-> noise_rng.pos % 4]

\* np.random.RandomState(seed): a generator at the start of its stream
RandomState(seed) == [seed |-> seed, pos |-> 0]

\* the smallest 2^k - 1 that is >= rng
RECURSIVE gen_mask(_, _)
gen_mask(rng, mask) == IF mask >= rng THEN mask ELSE gen_mask(rng, 2 * mask + 1)

\* size draws of masked rejection sampling: each output of the stream is
\* read under the mask and kept when it is <= rng, until size are kept.
\* More than half of the outputs are kept; the outputs looked at are the
\* next 2 * size + 32, which holds the size kept ones of every call made
\* here.
bounded_masked(raw, pos, mask, rng, size) ==
    LET ahead == IF Len(raw) - pos < 2 * size + 32 THEN Len(raw) - pos
                 ELSE 2 * size + 32
        kept_at == SelectSeq([i \in 1 .. ahead |-> pos + i],
                             LAMBDA i : raw[i] % (mask + 1) <= rng)
    IN  [pos |-> IF size = 0 THEN pos ELSE kept_at[size],
         values |-> [j \in 1 .. size |-> raw[kept_at[j]] % (mask + 1)]]

\* rs.randint(low, high, size=size): size integers of low .. high - 1, the
\* generator afterwards, or the ValueError of an empty range
randint(rs, low, high, size) ==
    IF low >= high
    THEN [raised |-> "ValueError", values |-> <<>>, rs |-> rs]
    ELSE LET rng == high - 1 - low
         IN  IF rng = 0
             THEN [raised |-> "", values |-> [i \in 1 .. size |-> low], rs |-> rs]
             ELSE LET d == bounded_masked(MT19937(rs.seed), rs.pos,
                                          gen_mask(rng, 1), rng, size)
                  IN  [raised |-> "",
                       values |-> [i \in 1 .. size |-> low + d.values[i]],
                       rs |-> [rs EXCEPT !.pos = d.pos]]

---------------------------------------------------------------------------
(* numpy's Generator, np.random.default_rng(seed).  Its state is the       *)
(* stream it was seeded into (by the seed, or by the system's entropy) and *)
(* the number of variates drawn from it so far.                            *)

\* mutant of default_rng: the seed read from the environment is not used
default_rng_unseeded(seed, entropy) ==
    [seeded |-> FALSE, key |-> entropy, pos |-> 0]

default_rng(seed, entropy) ==
    IF seed.set
    THEN [seeded |-> TRUE, key |-> seed.val, pos |-> 0]
    ELSE [seeded |-> FALSE, key |-> entropy, pos |-> 0]

\* mutant of advance: drawing leaves the generator where it was
no_advance(rng, n) == rng

advance(rng, n) == [rng EXCEPT !.pos = @ + n]

\* rng.normal(scale=scale, size=shape): loc + scale * a standard normal
\* variate per pixel; a negative scale is refused
normal(rng, scale, shape) ==
    IF RLess(scale, FromInt(0))
    THEN [raised |-> "ValueError", array |-> NoArray, rng |-> rng]
    ELSE [raised |-> "",
          array |-> IF scale = FromInt(0)
                    THEN Const(shape, "float64", FromInt(0))
                    ELSE Drawn(shape, "float64", "normal", rng, scale),
          rng |-> advance(rng, Size(shape))]

\* rng.poisson(lam, size=shape): a negative lam is refused, and lam == 0
\* gives 0 without drawing
poisson(rng, lam, shape) ==
    IF RLess(lam, FromInt(0))
    THEN [raised |-> "ValueError", array |-> NoArray, rng |-> rng]
    ELSE IF lam = FromInt(0)
    THEN [raised |-> "", array |-> Const(shape, "int64", FromInt(0)), rng |-> rng]
    ELSE [raised |-> "", array |-> Drawn(shape, "int64", "poisson", rng, lam),
          rng |-> advance(rng, Size(shape))]

---------------------------------------------------------------------------
(* The synthesizer functions.  Each takes the generator it reads, which in *)
(* the notebook is the global noise_rng, and returns what it raised, the   *)
(* array it returned and the generator afterwards.                         *)

\* def read_noise(image, amount, gain=1)
read_noise(image, amount, gain, rng) ==
    LET shape == image.shape
        noise == normal(rng, RDiv(amount, gain), shape)
    IN  noise

number_of_colums == 5

\* def bias(image, value, realistic=False)
bias(image, value, realistic, rng) ==
    LET bias_im == [zeros_like(image) EXCEPT !.val = RAdd(@, value)]
    IN  IF ~realistic
        THEN [raised |-> "", array |-> bias_im, rng |-> rng]
        ELSE LET shape == image.shape
                 rs == RandomState(8392)
                 columns == randint(rs, 0, shape[2], number_of_colums)
                 col_pattern == randint(columns.rs, 0,
                                        Trunc(RMul(Rat(1, 10), value)), shape[1])
             IN  IF columns.raised # "" \/ col_pattern.raised # ""
                 THEN [raised |-> "ValueError", array |-> NoArray, rng |-> rng]
                 ELSE [raised |-> "",
                       array |-> SetColumns(bias_im,
                                   {columns.values[i] : i \in 1 .. number_of_colums},
                                   [i \in 1 .. shape[1] |->
                                       RAdd(value, FromInt(col_pattern.values[i]))]),
                       rng |-> rng]

\* the hot pixels of an image of the given shape, drawn from rs: n_hot
\* pairs (hot_y[i], hot_x[i])
hot_pixel_positions(rs, y_max, x_max) ==
    LET n_hot == Trunc(RMul(Rat(1, 10000), FromInt(x_max * y_max)))
        hot_x == randint(rs, 0, x_max, n_hot)
        hot_y == randint(hot_x.rs, 0, y_max, n_hot)
    IN  [n_hot |-> n_hot,
         at |-> {<<hot_y.values[i], hot_x.values[i]>> : i \in 1 .. n_hot}]

\* mutant of add_hot_pixels: the positions are drawn from the shared
\* generator, which moves on by the 2 * n_hot draws
add_hot_pixels_shared(dark_im, current, exposure_time, gain) ==
    LET y_max == dark_im.array.shape[1]
        x_max == dark_im.array.shape[2]
        hot == hot_pixel_positions(RandomState(16201649), y_max, x_max)
        hot_current == RMul(FromInt(10000), current)
    IN  [dark_im EXCEPT
            !.array = SetPixels(@, hot.at,
                                RDiv(RMul(hot_current, exposure_time), gain)),
            !.rng = advance(@, 2 * hot.n_hot)]

\* the branch "if hot_pixels:" of dark_current, on the Poisson image drawn
add_hot_pixels(dark_im, current, exposure_time, gain) ==
    LET y_max == dark_im.array.shape[1]
        x_max == dark_im.array.shape[2]
        hot == hot_pixel_positions(RandomState(16201649), y_max, x_max)
        hot_current == RMul(FromInt(10000), current)
    IN  [dark_im EXCEPT !.array =
            SetPixels(@, hot.at, RDiv(RMul(hot_current, exposure_time), gain))]

\* def dark_current(image, current, exposure_time, gain=1.0, hot_pixels=False)
dark_current(image, current, exposure_time, gain, hot_pixels, rng) ==
    LET base_current == RDiv(RMul(current, exposure_time), gain)
        dark_im == poisson(rng, base_current, image.shape)
    IN  IF dark_im.raised # "" \/ ~hot_pixels
        THEN dark_im
        ELSE add_hot_pixels(dark_im, current, exposure_time, gain)

\* def sky_background(image, sky_counts, gain=1)
sky_background(image, sky_counts, gain, rng) ==
    LET sky_im == poisson(rng, RMul(sky_counts, gain), image.shape)
    IN  IF sky_im.raised # ""
        THEN sky_im
        ELSE [sky_im EXCEPT !.array = Divide(@, gain)]

---------------------------------------------------------------------------
(* The inputs the model draws.                                             *)

\* GUIDE_RANDOM_SEED: unset, or the integer the book is built with
Seeds == {[set |-> FALSE, val |-> 0], [set |-> TRUE, val |-> 4920385]}

Entropy == 1 .. MaxEntropy

\* <<height, width>>; the last two have hot pixels
Shapes == {<<2, 3>>, <<100, 200>>}

DarkShapes == Shapes \cup {<<810, 630>>}

Amounts == {FromInt(-5), FromInt(0), FromInt(5)}

Gains == {FromInt(-1), FromInt(1), Rat(7, 4)}

Values == {FromInt(5), FromInt(25), FromInt(1100)}

Currents == {Rat(-1, 10), FromInt(0), Rat(1, 10)}

Exposures == {FromInt(-30), FromInt(0), FromInt(30)}

SkyCounts == {FromInt(0), FromInt(20)}

---------------------------------------------------------------------------
(* The session.  out is the last call made and what it gave; hist and kept *)
(* are history variables: the calls of this session in order, and one      *)
(* earlier result kept for comparison.                                     *)

Call(op, image, a, t, g, flag) ==
    [op |-> op, shape |-> image.shape, a |-> a, t |-> t, g |-> g, flag |-> flag]

NoCall == [op |-> "none", shape |-> <<0, 0>>, a |-> FromInt(0), t |-> FromInt(0),
           g |-> FromInt(0), flag |-> FALSE]

Result(call, r) ==
    [call |-> call, before |-> noise_rng, raised |-> r.raised,
     array |-> r.array, after |-> r.rng]

NoResult == [call |-> NoCall, before |-> NoRng, raised |-> "",
             array |-> NoArray, after |-> NoRng]

NoKept == [seed |-> [set |-> FALSE, val |-> 0], hist |-> <<>>, out |-> NoResult]

\* ns holds the names the cells of a notebook have assigned; nb tells which
\* notebook the session is running, and no cell of one has run yet
NoNames == [nb |-> "none"]

\* a fresh session: the cell that builds noise_rng from the environment
Init ==
    /\ GUIDE_RANDOM_SEED \in Seeds
    /\ \E entropy \in Entropy : noise_rng = default_rng(GUIDE_RANDOM_SEED, entropy)
    /\ out = NoResult
    /\ calls = 0
    /\ hist = <<>>
    /\ kept = NoKept
    /\ ns = NoNames

\* a call made in the session: the global generator moves on, the result
\* is there to look at
Made(call, r) ==
    /\ calls < MaxCalls
    /\ noise_rng' = r.rng
    /\ out' = Result(call, r)
    /\ calls' = calls + 1
    /\ UNCHANGED <<GUIDE_RANDOM_SEED, ns>>

ReadNoise(shape, amount, gain) ==
    Made(Call("read_noise", zeros(shape), amount, FromInt(0), gain, FALSE),
         read_noise(zeros(shape), amount, gain, noise_rng))

Bias(shape, value, realistic) ==
    Made(Call("bias", zeros(shape), value, FromInt(0), FromInt(0), realistic),
         bias(zeros(shape), value, realistic, noise_rng))

DarkCurrent(shape, current, exposure_time, gain, hot_pixels) ==
    Made(Call("dark_current", zeros(shape), current, exposure_time, gain, hot_pixels),
         dark_current(zeros(shape), current, exposure_time, gain, hot_pixels,
                      noise_rng))

SkyBackground(shape, sky_counts, gain) ==
    Made(Call("sky_background", zeros(shape), sky_counts, FromInt(0), gain, FALSE),
         sky_background(zeros(shape), sky_counts, gain, noise_rng))

Next ==
    /\ \/ \E shape \in Shapes, amount \in Amounts, gain \in Gains :
              ReadNoise(shape, amount, gain)
       \/ \E shape \in Shapes, value \in Values, realistic \in BOOLEAN :
              Bias(shape, value, realistic)
       \/ \E shape \in DarkShapes, current \in Currents, exposure_time \in Exposures,
             gain \in Gains, hot_pixels \in BOOLEAN :
              DarkCurrent(shape, current, exposure_time, gain, hot_pixels)
       \/ \E shape \in Shapes, sky_counts \in SkyCounts, gain \in Gains :
              SkyBackground(shape, sky_counts, gain)
    /\ UNCHANGED <<hist, kept>>

Spec == Init /\ [][Next]_vars

---------------------------------------------------------------------------
(* Sessions one after the other.  The kernel is started again, with the    *)
(* environment it then finds; what stays of the session that ended is its  *)
(* last result, as the built book keeps the images of the last build.      *)

Restart(seed, entropy) ==
    /\ GUIDE_RANDOM_SEED' = seed
    /\ noise_rng' = default_rng(seed, entropy)
    /\ out' = NoResult
    /\ calls' = 0
    /\ hist' = <<>>
    /\ kept' = IF out = NoResult THEN kept
               ELSE [seed |-> GUIDE_RANDOM_SEED, hist |-> hist, out |-> out]
    /\ ns' = NoNames

\* realistic bias frames, made with read noise drawn before them, in
\* session after session
NextBias ==
    \/ /\ \/ \E shape \in Shapes : ReadNoise(shape, FromInt(5), FromInt(1))
          \/ \E shape \in Shapes, value \in Values : Bias(shape, value, TRUE)
       /\ UNCHANGED <<hist, kept>>
    \/ \E seed \in Seeds, entropy \in Entropy : Restart(seed, entropy)

SpecBias == Init /\ [][NextBias]_vars

\* <<current, exposure_time, gain>>: one setting, one with another current,
\* one with another exposure time and gain
DarkSettings ==
    {<<Rat(1, 10), FromInt(30), FromInt(1)>>, <<FromInt(0), FromInt(30), FromInt(1)>>,
     <<Rat(1, 10), FromInt(60), Rat(7, 4)>>}

\* dark frames with hot pixels, made with read noise drawn before them, in
\* session after session
NextHot ==
    \/ /\ \/ ReadNoise(<<2, 3>>, FromInt(5), FromInt(1))
          \/ \E shape \in DarkShapes \ {<<2, 3>>}, s \in DarkSettings :
                 DarkCurrent(shape, s[1], s[2], s[3], TRUE)
       /\ UNCHANGED <<hist, kept>>
    \/ \E seed \in Seeds, entropy \in Entropy : Restart(seed, entropy)

SpecHot == Init /\ [][NextHot]_vars

\* the noise layers of one small image, the calls of the session recorded
NextSeed ==
    \/ /\ \/ ReadNoise(<<2, 3>>, FromInt(5), FromInt(1))
          \/ \E hot_pixels \in BOOLEAN :
                 DarkCurrent(<<2, 3>>, Rat(1, 10), FromInt(30), FromInt(1), hot_pixels)
          \/ SkyBackground(<<2, 3>>, FromInt(20), FromInt(1))
       /\ hist' = Append(hist, out'.call)
       /\ UNCHANGED kept
    \/ \E seed \in Seeds, entropy \in Entropy : Restart(seed, entropy)

SpecSeed == Init /\ [][NextSeed]_vars

---------------------------------------------------------------------------
(* The notebooks that put the layers together.  They work on whole arrays, *)
(* pixel by pixel; the model follows one pixel, ns.at, through the cells.  *)
(* What a generator drew for that pixel is an input of the model, as are   *)
(* the star image and the flat there.  The images of the model are 100 by  *)
(* 200, the notebooks' are 2000 by 2000.                                   *)

RSub(a, b) == RAdd(a, <<-b[1], b[2]>>)

\* fractions rng.uniform can draw: 0 <= u < 1
UniformDraws == {FromInt(0), Rat(1, 8), Rat(1, 2), Rat(7, 8)}

\* make_model_params(shape, n_sources=..., flux=(low, high),
\*                   min_separation=20, border_size=20, seed=...): a table
\* of n_sources sources drawn by default_rng(seed) from the start of its
\* stream; a flux is low + (high - low) * u for the fraction u drawn
make_model_params(shape, n_sources, flux, seed) ==
    [shape |-> shape, n_sources |-> n_sources,
     from |-> [seeded |-> TRUE, key |-> seed, pos |-> 0],
     flux |-> [u \in UniformDraws |->
                  RAdd(flux[1], RMul(RSub(flux[2], flux[1]), u))]]

\* max_counts *= 100; params = make_model_params(image.shape, ...,
\*     flux=(max_counts / 10, max_counts), ..., seed=12345)
params(image, number, max_counts) ==
    make_model_params(image.shape, number,
                      <<Rat(max_counts * 100, 10), FromInt(max_counts * 100)>>,
                      12345)

\* the same drawn from the generator the noise functions share
stars_shared(image, number, max_counts) ==
    Drawn(image.shape, "float64", "stars", noise_rng, FromInt(max_counts * 100))

\* def stars(image, number, max_counts=10000, gain=1): the model image
\* photutils makes from seed=12345
stars(image, number, max_counts) ==
    Drawn(image.shape, "float64", "stars", [seeded |-> TRUE, key |-> 12345, pos |-> 0],
          FromInt(max_counts * 100))

\* image_sim.sensitivity_variations(image): a field near 1 with small dips
sensitivity_variations(image) ==
    Drawn(image.shape, "float64", "flat", NoRng, FromInt(1))

\* standard normal variates, Poisson variates, counts of the star image and
\* values of the flat at one pixel
NormalDraws == {FromInt(-1), FromInt(0), FromInt(2)}

PoissonDraws == {FromInt(0), FromInt(3)}

StarDraws == {FromInt(0), FromInt(150)}

FlatDraws == {FromInt(1), Rat(19, 20)}

Draws(kind) ==
    IF kind = "normal" THEN NormalDraws
    ELSE IF kind = "poisson" THEN PoissonDraws
    ELSE IF kind = "stars" THEN StarDraws
    ELSE FlatDraws

\* the number at pixel <<y, x>> of array a, when z is what was drawn there
Value(a, at, z) ==
    LET px == Pixel(a, at[1], at[2])
    IN  IF ~px.drawn THEN px.val
        ELSE IF px.kind = "normal" THEN RMul(z, px.val)
        ELSE IF px.kind = "poisson" THEN RDiv(z, px.div)
        ELSE z

\* what can be drawn at pixel <<y, x>> of array a
DrawsAt(a, at) ==
    LET px == Pixel(a, at[1], at[2])
    IN  IF px.drawn THEN Draws(px.kind) ELSE {FromInt(0)}

\* the pixels followed: the hot ones, one of each bad column, an ordinary one
Watched(bias_im, dark_im) ==
    dark_im.pts \cup {<<0, c>> : c \in bias_im.cols} \cup {<<1, 1>>}

ImageShape == <<100, 200>>

---------------------------------------------------------------------------
(* Nonuniform sensitivity: the layers, then                                *)
(* final_image = bias_only + noise_only + dark_only                        *)
(*               + flat * (sky_only + stars_only)                          *)

final_image_flat_all(bias_only, noise_only, dark_only, flat, sky_only, stars_only) ==
    RMul(flat, RAdd(RAdd(RAdd(bias_only, noise_only), dark_only),
                    RAdd(sky_only, stars_only)))

final_image(bias_only, noise_only, dark_only, flat, sky_only, stars_only) ==
    RAdd(RAdd(RAdd(bias_only, noise_only), dark_only),
         RMul(flat, RAdd(sky_only, stars_only)))

\* the cells that make image, flat and the five layers
NonuniformLayers ==
    LET image == zeros(ImageShape)
        gain == FromInt(1)
        exposure == FromInt(30)
        dark == Rat(1, 10)
        sky_counts == FromInt(20)
        bias_level == FromInt(1100)
        read_noise_electrons == FromInt(5)
        max_star_counts == 2000
        flat == sensitivity_variations(image)
        bias_only == bias(image, bias_level, TRUE, noise_rng)
        noise_only == read_noise(image, read_noise_electrons, gain, bias_only.rng)
        dark_only == dark_current(image, dark, exposure, gain, TRUE, noise_only.rng)
        sky_only == sky_background(image, sky_counts, gain, dark_only.rng)
        stars_only == stars(image, 50, max_star_counts)
    IN  /\ ns.nb = "none"
        /\ \E at \in Watched(bias_only.array, dark_only.array) :
           \E zf \in DrawsAt(flat, at), zn \in DrawsAt(noise_only.array, at),
              zd \in DrawsAt(dark_only.array, at), zs \in DrawsAt(sky_only.array, at),
              zt \in DrawsAt(stars_only, at) :
               ns' = [nb |-> "nonuniform", cell |-> "layers", at |-> at,
                      hot |-> at \in dark_only.array.pts,
                      flat |-> Value(flat, at, zf),
                      bias_only |-> Value(bias_only.array, at, FromInt(0)),
                      noise_only |-> Value(noise_only.array, at, zn),
                      dark_only |-> Value(dark_only.array, at, zd),
                      sky_only |-> Value(sky_only.array, at, zs),
                      stars_only |-> Value(stars_only, at, zt),
                      final_image |-> FromInt(0),
                      sky2 |-> FromInt(0),
                      final_image2 |-> FromInt(0)]
        /\ noise_rng' = sky_only.rng
        /\ UNCHANGED <<GUIDE_RANDOM_SEED, out, calls, hist, kept>>

\* final_image = bias_only + noise_only + dark_only + flat * (sky_only + stars_only)
FinalImage ==
    /\ ns.nb = "nonuniform" /\ ns.cell = "layers"
    /\ ns' = [ns EXCEPT !.cell = "final_image",
                        !.final_image = final_image(ns.bias_only, ns.noise_only,
                                                    ns.dark_only, ns.flat,
                                                    ns.sky_only, ns.stars_only)]
    /\ UNCHANGED <<GUIDE_RANDOM_SEED, noise_rng, out, calls, hist, kept>>

\* final_image2: the same with a sky background 3000 times as bright
FinalImage2 ==
    LET image == zeros(ImageShape)
        sky == sky_background(image, RMul(FromInt(3000), FromInt(20)), FromInt(1),
                              noise_rng)
    IN  /\ ns.nb = "nonuniform" /\ ns.cell = "final_image"
        /\ \E zs \in DrawsAt(sky.array, ns.at) :
               ns' = [ns EXCEPT !.cell = "final_image2",
                                !.sky2 = Value(sky.array, ns.at, zs),
                                !.final_image2 =
                                    final_image(ns.bias_only, ns.noise_only,
                                                ns.dark_only, ns.flat,
                                                Value(sky.array, ns.at, zs),
                                                ns.stars_only)]
        /\ noise_rng' = sky.rng
        /\ UNCHANGED <<GUIDE_RANDOM_SEED, out, calls, hist, kept>>

\* stars_only = stars(image, number, max_counts) called in a session: the
\* shared generator is not touched
Stars(shape, number, max_counts) ==
    Made(Call("stars", zeros(shape), FromInt(max_counts), FromInt(number),
              FromInt(1), FALSE),
         [raised |-> "", array |-> stars(zeros(shape), number, max_counts),
          rng |-> noise_rng])

\* stars among calls that draw noise, in session after session
NextStars ==
    \/ /\ \/ ReadNoise(<<2, 3>>, FromInt(5), FromInt(1))
          \/ \E max_counts \in {2000, 10000} : Stars(ImageShape, 50, max_counts)
       /\ hist' = Append(hist, out'.call)
       /\ UNCHANGED kept
    \/ \E seed \in Seeds, entropy \in Entropy : Restart(seed, entropy)

SpecStars == Init /\ [][NextStars]_vars

NextNonuniform == NonuniformLayers \/ FinalImage \/ FinalImage2

SpecNonuniform == Init /\ [][NextNonuniform]_vars

---------------------------------------------------------------------------
(* Calibration overview: a bias frame, a dark frame and a star image, each *)
(* with its own read noise, and the star image calibrated with them.       *)

\* one hot pixel, one pixel of a bad column and an ordinary one
WatchedFew(bias_im, dark_im) ==
    {CHOOSE at \in dark_im.pts : TRUE,
     <<0, CHOOSE c \in bias_im.cols : TRUE>>,
     <<1, 1>>}

\* scaled_dark_current = star_exposure * (dark_frame_with_noise - bias_with_noise)
\*                       / dark_exposure
scaled_dark_current(star_exposure, dark_frame, bias_frame, dark_exposure) ==
    RDiv(RMul(star_exposure, RSub(dark_frame, bias_frame)), dark_exposure)

\* calibrated_stars = (realistic_stars - bias_with_noise - scaled_dark_current) / flat
calibrated_stars(realistic_stars, bias_with_noise, scaled_dark, flat) ==
    RDiv(RSub(RSub(realistic_stars, bias_with_noise), scaled_dark), flat)

\* the cell that makes bias_with_noise, dark_frame_with_noise and flat
CalibrationFrames ==
    LET image == zeros(ImageShape)
        gain == FromInt(1)
        dark_exposure == FromInt(60)
        dark == Rat(1, 10)
        bias_level == FromInt(1100)
        read_noise_electrons == FromInt(700)
        bias1 == bias(image, bias_level, TRUE, noise_rng)
        noise1 == read_noise(image, read_noise_electrons, gain, bias1.rng)
        bias2 == bias(image, bias_level, TRUE, noise1.rng)
        dark2 == dark_current(image, dark, dark_exposure, gain, TRUE, bias2.rng)
        noise2 == read_noise(image, read_noise_electrons, gain, dark2.rng)
        flat == sensitivity_variations(image)
    IN  /\ ns.nb = "none"
        /\ \E at \in WatchedFew(bias1.array, dark2.array) :
           \E zn1 \in DrawsAt(noise1.array, at), zd \in DrawsAt(dark2.array, at),
              zn2 \in DrawsAt(noise2.array, at), zf \in DrawsAt(flat, at) :
               ns' = [nb |-> "calibration", cell |-> "frames", at |-> at,
                      hot |-> at \in dark2.array.pts,
                      drawn |-> <<zn1, zd, zn2>>,
                      bias_with_noise |->
                          RAdd(Value(bias1.array, at, FromInt(0)),
                               Value(noise1.array, at, zn1)),
                      dark_frame_with_noise |->
                          RAdd(RAdd(Value(bias2.array, at, FromInt(0)),
                                    Value(dark2.array, at, zd)),
                               Value(noise2.array, at, zn2)),
                      flat |-> Value(flat, at, zf),
                      stars |-> FromInt(0),
                      realistic_stars |-> FromInt(0),
                      scaled_dark_current |-> FromInt(0),
                      calibrated_stars |-> FromInt(0)]
        /\ noise_rng' = noise2.rng
        /\ UNCHANGED <<GUIDE_RANDOM_SEED, out, calls, hist, kept>>

\* the cell that makes realistic_stars: stars + dark current + bias + read noise
RealisticStars ==
    LET image == zeros(ImageShape)
        gain == FromInt(1)
        star_exposure == FromInt(30)
        dark == Rat(1, 10)
        bias_level == FromInt(1100)
        read_noise_electrons == FromInt(700)
        max_star_counts == 2000
        stars3 == stars(image, 50, max_star_counts)
        dark3 == dark_current(image, dark, star_exposure, gain, TRUE, noise_rng)
        bias3 == bias(image, bias_level, TRUE, dark3.rng)
        noise3 == read_noise(image, read_noise_electrons, gain, bias3.rng)
    IN  /\ ns.nb = "calibration" /\ ns.cell = "frames"
        /\ \E zt \in DrawsAt(stars3, ns.at), zd \in DrawsAt(dark3.array, ns.at),
              zn \in DrawsAt(noise3.array, ns.at) :
               ns' = [ns EXCEPT !.cell = "realistic_stars",
                                !.drawn = @ \o <<zd, zn>>,
                                !.stars = Value(stars3, ns.at, zt),
                                !.realistic_stars =
                                    RAdd(RAdd(RAdd(Value(stars3, ns.at, zt),
                                                   Value(dark3.array, ns.at, zd)),
                                              Value(bias3.array, ns.at, FromInt(0))),
                                         Value(noise3.array, ns.at, zn))]
        /\ noise_rng' = noise3.rng
        /\ UNCHANGED <<GUIDE_RANDOM_SEED, out, calls, hist, kept>>

\* the cells that reduce the star image
ScaledDarkCurrent ==
    /\ ns.nb = "calibration" /\ ns.cell = "realistic_stars"
    /\ ns' = [ns EXCEPT !.cell = "scaled_dark_current",
                        !.scaled_dark_current =
                            scaled_dark_current(FromInt(30), ns.dark_frame_with_noise,
                                                ns.bias_with_noise, FromInt(60))]
    /\ UNCHANGED <<GUIDE_RANDOM_SEED, noise_rng, out, calls, hist, kept>>

CalibratedStars ==
    /\ ns.nb = "calibration" /\ ns.cell = "scaled_dark_current"
    /\ ns' = [ns EXCEPT !.cell = "calibrated_stars",
                        !.calibrated_stars =
                            calibrated_stars(ns.realistic_stars, ns.bias_with_noise,
                                             ns.scaled_dark_current, ns.flat)]
    /\ UNCHANGED <<GUIDE_RANDOM_SEED, noise_rng, out, calls, hist, kept>>

NextCalibration ==
    \/ CalibrationFrames \/ RealisticStars \/ ScaledDarkCurrent \/ CalibratedStars
    \/ NextNonuniform

\* a session runs one of the two notebooks
SpecCalibration == Init /\ [][NextCalibration]_vars

---------------------------------------------------------------------------
(* The interactive demo of the construction notebook: complete_image shows *)
(* the sum of the layers of a 500 by 500 image.  The image shown is kept   *)
(* as its terms; two sums of the same terms are the same image.            *)

\* def complete_image(bias_level=1100, read=10.0, gain=1, dark=0.1,
\*                    exposure=30, hot_pixels=True, sky_counts=200)
complete_image(bias_level, read, gain, dark, exposure, hot_pixels, sky_counts, rng) ==
    LET synthetic_image == zeros(<<500, 500>>)
        noise == read_noise(synthetic_image, read, FromInt(1), rng)
        bias_im == bias(synthetic_image, bias_level, TRUE, noise.rng)
        dark_im == dark_current(synthetic_image, dark, exposure, FromInt(1),
                                hot_pixels, bias_im.rng)
        sky == sky_background(synthetic_image, sky_counts, FromInt(1), dark_im.rng)
    IN  IF noise.raised # "" THEN [raised |-> noise.raised, shown |-> <<>>, rng |-> rng]
        ELSE IF bias_im.raised # ""
        THEN [raised |-> bias_im.raised, shown |-> <<>>, rng |-> noise.rng]
        ELSE IF dark_im.raised # ""
        THEN [raised |-> dark_im.raised, shown |-> <<>>, rng |-> bias_im.rng]
        ELSE IF sky.raised # ""
        THEN [raised |-> sky.raised, shown |-> <<>>, rng |-> dark_im.rng]
        ELSE [raised |-> "",
              shown |-> <<synthetic_image, noise.array, bias_im.array, dark_im.array,
                          sky.array>>,
              rng |-> sky.rng]

\* the defaults of complete_image: <<bias_level, read, gain, dark, exposure,
\* hot_pixels, sky_counts>>
DemoDefaults ==
    <<FromInt(1100), FromInt(10), FromInt(1), Rat(1, 10), FromInt(30), TRUE,
      FromInt(200)>>

\* positions of the sliders and of the checkbox: the defaults with at most
\* two of them moved
DemoSettings ==
    {P \in {FromInt(1000), FromInt(1100)} \X {FromInt(5), FromInt(10)}
              \X {FromInt(1), FromInt(2)} \X {Rat(1, 10), Rat(1, 5)}
              \X {FromInt(30), FromInt(60)} \X BOOLEAN
              \X {FromInt(50), FromInt(200)} :
        Cardinality({j \in 1 .. 7 : P[j] # DemoDefaults[j]}) <= 2}

Interactive(P, rng) == complete_image(P[1], P[2], P[3], P[4], P[5], P[6], P[7], rng)

\* a slider is moved: complete_image runs with the new settings
CompleteImage(P) ==
    LET r == Interactive(P, noise_rng)
    IN  /\ calls < MaxCalls
        /\ ns.nb \in {"none", "demo"}
        /\ ns' = [nb |-> "demo", cell |-> "complete_image", args |-> P,
                  before |-> noise_rng, raised |-> r.raised, shown |-> r.shown]
        /\ noise_rng' = r.rng
        /\ calls' = calls + 1
        /\ UNCHANGED <<GUIDE_RANDOM_SEED, out, hist, kept>>

NextDemo == \E P \in DemoSettings : CompleteImage(P)

SpecDemo == Init /\ [][NextDemo]_vars

---------------------------------------------------------------------------
(* Floats that are not numbers: NaN is <<0, 0>>, plus and minus infinity   *)
(* are <<1, 0>> and <<-1, 0>>.  The operations below are IEEE's on them    *)
(* and the exact ones on the rest.                                         *)

NaN == <<0, 0>>

Sign(n) == IF n > 0 THEN 1 ELSE IF n < 0 THEN -1 ELSE 0

IsFinite(a) == a[2] # 0

FNeg(a) == <<-a[1], a[2]>>

FAbs(a) == <<Abs(a[1]), a[2]>>

FAdd(a, b) ==
    IF a = NaN \/ b = NaN THEN NaN
    ELSE IF IsFinite(a) /\ IsFinite(b) THEN RAdd(a, b)
    ELSE IF IsFinite(a) THEN b
    ELSE IF IsFinite(b) THEN a
    ELSE IF a = b THEN a ELSE NaN

FSub(a, b) == FAdd(a, FNeg(b))

FMul(a, b) ==
    IF a = NaN \/ b = NaN THEN NaN
    ELSE IF IsFinite(a) /\ IsFinite(b) THEN RMul(a, b)
    ELSE IF a[1] = 0 \/ b[1] = 0 THEN NaN
    ELSE <<Sign(a[1]) * Sign(b[1]), 0>>

\* numpy's division: x / 0.0 is an infinity (0.0 / 0.0 is NaN), with a
\* RuntimeWarning and no exception
FDiv(a, b) ==
    IF a = NaN \/ b = NaN THEN NaN
    ELSE IF IsFinite(a) /\ IsFinite(b)
    THEN IF b[1] # 0 THEN RDiv(a, b)
         ELSE IF a[1] = 0 THEN NaN ELSE <<Sign(a[1]), 0>>
    ELSE IF IsFinite(a) THEN FromInt(0)
    ELSE IF IsFinite(b) THEN <<Sign(a[1]) * (IF b[1] < 0 THEN -1 ELSE 1), 0>>
    ELSE NaN

\* a < b; False when either is NaN
FLess(a, b) ==
    IF a = NaN \/ b = NaN THEN FALSE
    ELSE IF IsFinite(a) /\ IsFinite(b) THEN RLess(a, b)
    ELSE IF IsFinite(a) THEN b[1] > 0
    ELSE IF IsFinite(b) THEN a[1] < 0
    ELSE a[1] < b[1]

RECURSIVE FSum(_)
FSum(xs) == IF xs = <<>> THEN FromInt(0) ELSE FAdd(Head(xs), FSum(Tail(xs)))

\* xs in ascending order (xs holds no NaN): the k-th value is the one with
\* fewer than k values below it and at least k values not above it
Sorted(xs) ==
    [k \in 1 .. Len(xs) |->
        CHOOSE v \in {xs[i] : i \in 1 .. Len(xs)} :
            /\ Cardinality({i \in 1 .. Len(xs) : FLess(xs[i], v)}) < k
            /\ Cardinality({i \in 1 .. Len(xs) : ~FLess(v, xs[i])}) >= k]

\* np.nanmedian: the median of the values that are not NaN
nanmedian(xs) ==
    LET s == Sorted(SelectSeq(xs, LAMBDA v : v # NaN))
        n == Len(s)
    IN  IF n = 0 THEN NaN
        ELSE IF n % 2 = 1 THEN s[(n + 1) \div 2]
        ELSE FDiv(FAdd(s[n \div 2], s[n \div 2 + 1]), FromInt(2))

\* np.median: NaN as soon as one value is
median(xs) == IF \E i \in 1 .. Len(xs) : xs[i] = NaN THEN NaN ELSE nanmedian(xs)

\* np.nanmean
nanmean(xs) ==
    LET s == SelectSeq(xs, LAMBDA v : v # NaN)
    IN  IF s = <<>> THEN NaN ELSE FDiv(FSum(s), FromInt(Len(s)))

\* astropy.stats.mad_std(data, axis=0): the median absolute deviation about
\* the median, times 1.4826 (1.482602218505602 in astropy)
mean_abs_dev(xs) ==
    LET m == IF \E i \in 1 .. Len(xs) : xs[i] = NaN THEN NaN ELSE nanmean(xs)
    IN  IF m = NaN THEN NaN
        ELSE nanmean([i \in 1 .. Len(xs) |-> FAbs(FSub(xs[i], m))])

mad_std(xs) ==
    LET m == median(xs)
    IN  IF m = NaN THEN NaN
        ELSE FMul(Rat(7413, 5000),
                  median([i \in 1 .. Len(xs) |-> FAbs(FSub(xs[i], m))]))

---------------------------------------------------------------------------
(* The sky flat: partially calibrated frames are written to the working    *)
(* directory and combined.  A frame is its pixels in reading order; the    *)
(* frames read back from the working directory carry no mask.              *)

\* frames the partial calibration writes in one session
MaxFrames == 3

Frame(xs) == [data |-> [i \in 1 .. Len(xs) |-> FromInt(xs[i])]]

\* reduced.data[segm.data > 0] = np.nan, for a source found at pixel p
Blanked(reduced, p) == [reduced EXCEPT !.data[p] = NaN]

\* the reduced frames: a uniform sky, two with gradients (medians 10 and
\* 20), one hit by a cosmic ray at the first pixel, one whose source at the
\* first pixel was blanked, one whose median is zero
Reduced ==
    { Frame(<<10, 10, 10>>),
      Frame(<<0, 10, 50>>), Frame(<<100, 20, 0>>),
      Frame(<<5000, 10, 10>>), Blanked(Frame(<<300, 10, 10>>), 1),
      Frame(<<0, 0, 7>>) }

inv_median(array) == FDiv(FromInt(1), nanmedian(array))

\* the same with closed bounds: a sample on a threshold is masked too
sigma_clipping_closed(column) ==
    LET filtered == [i \in 1 .. Len(column) |->
                        IF IsFinite(column[i]) THEN column[i] ELSE NaN]
        centre == nanmedian(filtered)
        dev == mad_std(filtered)
        low == FSub(centre, FMul(FromInt(3), dev))
        high == FAdd(centre, FMul(FromInt(3), dev))
    IN  [i \in 1 .. Len(column) |->
            \/ filtered[i] = NaN
            \/ ~FLess(low, filtered[i])
            \/ ~FLess(filtered[i], high)]

\* Combiner.sigma_clipping on the samples of one pixel, thresholds 3 and 3,
\* one pass: samples that are not finite, and samples further than three
\* deviations from the centre, are masked.  A deviation of NaN clips
\* nothing more.
sigma_clipping(column) ==
    LET filtered == [i \in 1 .. Len(column) |->
                        IF IsFinite(column[i]) THEN column[i] ELSE NaN]
        centre == nanmedian(filtered)
        dev == mad_std(filtered)
        low == FSub(centre, FMul(FromInt(3), dev))
        high == FAdd(centre, FMul(FromInt(3), dev))
    IN  [i \in 1 .. Len(column) |->
            \/ filtered[i] = NaN
            \/ FLess(filtered[i], low)
            \/ FLess(high, filtered[i])]

\* the factor of the first frame applied to every frame
scalings_of_first(img_list, scale) ==
    [i \in 1 .. Len(img_list) |->
        IF scale = "inv_median" THEN inv_median(img_list[1].data)
        ELSE FromInt(1)]

\* scale(frame.data) of each frame, or 1 without a scale
scalings(img_list, scale) ==
    [i \in 1 .. Len(img_list) |->
        IF scale = "inv_median" THEN inv_median(img_list[i].data)
        ELSE FromInt(1)]

\* the Combiner at work on frames (or tiles of frames) with one factor per
\* frame: the frames are clipped pixel by pixel, multiplied by their
\* factors and averaged (or their median taken) over the samples left; a
\* pixel is masked in the result when all its samples are
Combiner(ccd_list, method, scaling, sigma_clip) ==
    LET n == Len(ccd_list)
        pixel(p) ==
            LET column == [i \in 1 .. n |-> ccd_list[i].data[p]]
                clipped == IF sigma_clip THEN sigma_clipping(column)
                           ELSE [i \in 1 .. n |-> FALSE]
                scaled == [i \in 1 .. n |->
                              IF clipped[i] THEN NaN
                              ELSE FMul(column[i], scaling[i])]
            IN  [value |-> IF method = "median" THEN nanmedian(scaled)
                           ELSE nanmean(scaled),
                 mask |-> \A i \in 1 .. n : clipped[i],
                 clipped |-> clipped]
    IN  [p \in 1 .. Len(ccd_list[1].data) |-> pixel(p)]

\* the combination of a group that is not empty, in one piece: the factors
\* of the frames, then the Combiner's work on the whole frames
combined_image(img_list, method, scale, sigma_clip) ==
    LET n == Len(img_list)
        factor == scalings(img_list, scale)
        pixel(p) ==
            LET column == [i \in 1 .. n |-> img_list[i].data[p]]
                clipped == IF sigma_clip THEN sigma_clipping(column)
                           ELSE [i \in 1 .. n |-> FALSE]
                scaled == [i \in 1 .. n |->
                              IF clipped[i] THEN NaN
                              ELSE FMul(column[i], factor[i])]
            IN  [value |-> IF method = "median" THEN nanmedian(scaled)
                           ELSE nanmean(scaled),
                 mask |-> \A i \in 1 .. n : clipped[i]]
        combined == [p \in 1 .. Len(img_list[1].data) |-> pixel(p)]
    IN  [raised |-> "none",
         data |-> [p \in 1 .. Len(combined) |-> combined[p].value],
         mask |-> [p \in 1 .. Len(combined) |-> combined[p].mask]]

\* the same without the look at the first frame
combine_unchecked(img_list, method, scale, sigma_clip) ==
    IF img_list = <<>>
    THEN [raised |-> "none", data |-> <<>>, mask |-> <<>>]
    ELSE combined_image(img_list, method, scale, sigma_clip)

\* ccdp.combine(img_list, method=..., scale=..., sigma_clip=...,
\*              sigma_clip_low_thresh=3, sigma_clip_high_thresh=3,
\*              sigma_clip_func=np.nanmedian, sigma_clip_dev_func=mad_std)
\* img_list[0] is the template of the result: IndexError on an empty list
combine(img_list, method, scale, sigma_clip) ==
    IF img_list = <<>>
    THEN [raised |-> "IndexError", data |-> <<>>, mask |-> <<>>]
    ELSE combined_image(img_list, method, scale, sigma_clip)

Methods == {"average", "median"}

Scales == {"None", "inv_median"}

\* one pass of the partial calibration loop: a reduced frame is written
WriteReduced(reduced) ==
    /\ ns.nb \in {"none", "skyflat"}
    /\ ns.nb = "skyflat" => ns.cell = "loop" /\ Len(ns.working) < MaxFrames
    /\ ns' = [nb |-> "skyflat", cell |-> "loop",
              working |-> IF ns.nb = "none" THEN <<reduced>>
                          ELSE Append(ns.working, reduced)]
    /\ UNCHANGED <<GUIDE_RANDOM_SEED, noise_rng, out, calls, hist, kept>>

\* the combine cell, run on what the working directory holds
Combine(method, scale, sigma_clip) ==
    LET to_combine == IF ns.nb = "none" THEN <<>> ELSE ns.working
    IN  /\ ns.nb \in {"none", "skyflat"}
        /\ ns.nb = "skyflat" => ns.cell = "loop"
        /\ ns' = [nb |-> "skyflat", cell |-> "combine",
                  working |-> to_combine,
                  args |-> <<method, scale, sigma_clip>>,
                  sky_flat |-> combine(to_combine, method, scale, sigma_clip)]
        /\ UNCHANGED <<GUIDE_RANDOM_SEED, noise_rng, out, calls, hist, kept>>

\* two neighbouring files of the working directory change places and the
\* combine cell is run again with the same arguments
Reorder(i) ==
    /\ ns.nb = "skyflat" /\ ns.cell = "combine"
    /\ i \in 1 .. Len(ns.working) - 1
    /\ LET to_combine == [ns.working EXCEPT ![i] = ns.working[i + 1],
                                            ![i + 1] = ns.working[i]]
       IN  ns' = [nb |-> "skyflat", cell |-> "reorder",
                  working |-> to_combine,
                  args |-> ns.args,
                  before |-> ns.sky_flat,
                  sky_flat |-> combine(to_combine, ns.args[1], ns.args[2],
                                       ns.args[3])]
    /\ UNCHANGED <<GUIDE_RANDOM_SEED, noise_rng, out, calls, hist, kept>>

NextCombine ==
    \/ \E reduced \in Reduced : WriteReduced(reduced)
    \/ \E method \in Methods, scale \in Scales, sigma_clip \in BOOLEAN :
          Combine(method, scale, sigma_clip)
    \/ \E i \in 1 .. MaxFrames : Reorder(i)

\* the notebook as the test workflow runs it, GUIDE_RANDOM_SEED set; it
\* draws nothing from noise_rng
InitSkyFlat == Init /\ GUIDE_RANDOM_SEED.set

SpecCombine == InitSkyFlat /\ [][NextCombine]_vars

---------------------------------------------------------------------------
(* The combination under a memory limit: ccdp.combine cuts the frames into *)
(* tiles, combines tile by tile and puts the pieces into the result.       *)

\* the ways mem_limit can cut the rows of a frame: the lengths of the tiles
Tilings == {<<3>>, <<1, 2>>, <<2, 1>>, <<1, 1, 1>>}

\* rows before tile t
RECURSIVE Offset(_, _)
Offset(tiling, t) == IF t = 1 THEN 0 ELSE Offset(tiling, t - 1) + tiling[t - 1]

\* x[start:end] of every frame
Tiles(img_list, tiling, t) ==
    [i \in 1 .. Len(img_list) |->
        [data |-> SubSeq(img_list[i].data, Offset(tiling, t) + 1,
                         Offset(tiling, t) + tiling[t])]]

\* the factors computed tile by tile, from the pixels of the tile alone
scalings_of_tile(img_list, tiling, t, scale) ==
    scalings(Tiles(img_list, tiling, t), scale)

\* scale(image.data) of every whole frame, computed once before the tiles
\* are cut and handed to the Combiner of every tile
scalings_for_tile(img_list, tiling, t, scale) == scalings(img_list, scale)

\* ccdp.combine with the tiles mem_limit asks for; the result also shows
\* the factors each tile was combined with and the samples clipped
combine_tiled(img_list, tiling, method, scale, sigma_clip) ==
    IF img_list = <<>>
    THEN [raised |-> "IndexError", data |-> <<>>, mask |-> <<>>,
          scaling |-> <<>>, clipped |-> <<>>]
    ELSE
    LET tile_combiner ==
            [t \in 1 .. Len(tiling) |->
                Combiner(Tiles(img_list, tiling, t), method,
                         scalings_for_tile(img_list, tiling, t, scale),
                         sigma_clip)]
        tile_of(p) == CHOOSE t \in 1 .. Len(tiling) :
                         /\ Offset(tiling, t) < p
                         /\ p <= Offset(tiling, t) + tiling[t]
        comb_tile(p) == tile_combiner[tile_of(p)][p - Offset(tiling, tile_of(p))]
        size == Len(img_list[1].data)
    IN  [raised |-> "none",
         data |-> [p \in 1 .. size |-> comb_tile(p).value],
         mask |-> [p \in 1 .. size |-> comb_tile(p).mask],
         scaling |-> [t \in 1 .. Len(tiling) |->
                         scalings_for_tile(img_list, tiling, t, scale)],
         clipped |-> [p \in 1 .. size |-> comb_tile(p).clipped]]

\* the combine cell, with the tiles the memory limit leads to
CombineTiled(tiling, method, scale, sigma_clip) ==
    LET to_combine == IF ns.nb = "none" THEN <<>> ELSE ns.working
    IN  /\ ns.nb \in {"none", "skyflat"}
        /\ ns.nb = "skyflat" => ns.cell = "loop"
        /\ ns' = [nb |-> "skyflat", cell |-> "combine_tiled",
                  working |-> to_combine,
                  args |-> <<method, scale, sigma_clip>>,
                  tiling |-> tiling,
                  sky_flat |-> combine_tiled(to_combine, tiling, method, scale,
                                             sigma_clip)]
        /\ UNCHANGED <<GUIDE_RANDOM_SEED, noise_rng, out, calls, hist, kept>>

\* the frames that differ from row to row and have a median to scale by
Uneven == Reduced \ {Frame(<<10, 10, 10>>), Frame(<<0, 0, 7>>)}

NextTiled ==
    \/ \E reduced \in Uneven : WriteReduced(reduced)
    \/ \E tiling \in Tilings, method \in Methods, scale \in Scales,
          sigma_clip \in BOOLEAN :
          CombineTiled(tiling, method, scale, sigma_clip)

SpecTiled == InitSkyFlat /\ [][NextTiled]_vars

---------------------------------------------------------------------------
(* Sigma clipping as the loop it is: the samples of the whole stack are    *)
(* clipped pass after pass, until a pass excludes nothing or the maximum   *)
(* number of passes is reached.                                            *)

\* the largest maximum number of passes looked at; the Combiner asks for 1
MaxIters == 2

\* the samples of pixel p, NaN where they are excluded
Filtered(img_list, clipped, p) ==
    [i \in 1 .. Len(img_list) |->
        IF clipped[p][i] THEN NaN ELSE img_list[i].data[p]]

\* the samples outside the bounds of this pass, whatever was excluded before
clip_pass_afresh(img_list, clipped) ==
    [p \in 1 .. Len(clipped) |->
        LET filtered == Filtered(img_list, clipped, p)
            centre == nanmedian(filtered)
            dev == mad_std(filtered)
            low == FSub(centre, FMul(FromInt(3), dev))
            high == FAdd(centre, FMul(FromInt(3), dev))
        IN  [i \in 1 .. Len(img_list) |->
                \/ ~IsFinite(img_list[i].data[p])
                \/ FLess(filtered[i], low)
                \/ FLess(high, filtered[i])]]

\* one pass: the bounds are computed from the samples still in, and the
\* samples outside them are excluded as well
clip_pass(img_list, clipped) ==
    [p \in 1 .. Len(clipped) |->
        LET filtered == Filtered(img_list, clipped, p)
            centre == nanmedian(filtered)
            dev == mad_std(filtered)
            low == FSub(centre, FMul(FromInt(3), dev))
            high == FAdd(centre, FMul(FromInt(3), dev))
        IN  [i \in 1 .. Len(img_list) |->
                \/ clipped[p][i]
                \/ FLess(filtered[i], low)
                \/ FLess(high, filtered[i])]]

\* the number of samples excluded in the whole stack
Excluded(clipped) ==
    Cardinality({pi \in (1 .. Len(clipped)) \X (1 .. MaxFrames + 1) :
                    pi[2] <= Len(clipped[pi[1]]) /\ clipped[pi[1]][pi[2]]})

\* the loop goes on: the last pass changed something and passes are left
GoesOn == ns.nchanged # 0 /\ ns.iteration < ns.maxiters

\* the clipping of the stack begins: samples that are not finite are out
BeginClipping(maxiters) ==
    /\ ns.nb = "skyflat" /\ ns.cell = "loop"
    /\ ns' = [nb |-> "skyflat", cell |-> "clipping", working |-> ns.working,
              maxiters |-> maxiters, iteration |-> 0, nchanged |-> 1,
              clipped |-> [p \in 1 .. Len(ns.working[1].data) |->
                              [i \in 1 .. Len(ns.working) |->
                                  ~IsFinite(ns.working[i].data[p])]]]
    /\ UNCHANGED <<GUIDE_RANDOM_SEED, noise_rng, out, calls, hist, kept>>

\* one turn of the loop
ClipIteration ==
    /\ ns.nb = "skyflat" /\ ns.cell = "clipping"
    /\ GoesOn
    /\ LET clipped == clip_pass(ns.working, ns.clipped)
       IN  ns' = [ns EXCEPT !.iteration = @ + 1,
                            !.clipped = clipped,
                            !.nchanged = Excluded(clipped) - Excluded(ns.clipped)]
    /\ UNCHANGED <<GUIDE_RANDOM_SEED, noise_rng, out, calls, hist, kept>>

\* the loop is left
EndClipping ==
    /\ ns.nb = "skyflat" /\ ns.cell = "clipping"
    /\ ~GoesOn
    /\ ns' = [ns EXCEPT !.cell = "clipped"]
    /\ UNCHANGED <<GUIDE_RANDOM_SEED, noise_rng, out, calls, hist, kept>>

NextClip ==
    \/ \E reduced \in Reduced : WriteReduced(reduced)
    \/ \E maxiters \in 1 .. MaxIters : BeginClipping(maxiters)
    \/ ClipIteration
    \/ EndClipping

SpecClip == InitSkyFlat /\ [][NextClip]_vars

\* a turn of the loop can be taken: what ENABLED <<ClipIteration>>_vars
\* comes to, since a turn always raises the iteration count
TurnEnabled == ns.nb = "skyflat" /\ ns.cell = "clipping" /\ GoesOn

\* weak fairness of ClipIteration, written out with its enabling condition
ClipIterationFair == []<>(~TurnEnabled) \/ []<><<ClipIteration>>_vars

\* the loop runs on once it has begun: python runs the while statement
\* without yielding
SpecClipFair == SpecClip /\ ClipIterationFair /\ WF_vars(EndClipping)

---------------------------------------------------------------------------
(* Cosmic ray removal: the stored masks are read, joined and put on the    *)
(* image, LACosmic adds the cosmic rays, the earlier mask is taken out     *)
(* again and the mask is saved with the image.  A mask is an array of its  *)
(* dtype, with its value at every pixel <<row, column>>.                   *)

MaskShape == <<3, 3>>

MaskPixels == (0 .. MaskShape[1] - 1) \X (0 .. MaskShape[2] - 1)

\* maskr.astype('uint8'), written to and read from the FITS file: 1 at the
\* pixels of the mask, 0 elsewhere
AsUint8(pixels) ==
    [dtype |-> "uint8",
     val |-> [px \in MaskPixels |-> IF px \in pixels THEN 1 ELSE 0]]

\* hot pixels found from the dark current
HotPixelMasks == {{}, {<<2, 2>>}, {<<0, 1>>, <<2, 1>>}}

\* what ccdmask found: nothing, or the covered column at the left edge
CcdmaskMasks == {{}, {px \in MaskPixels : px[2] = 0}}

\* the pixels LACosmic may flag: none, one or two of them
CrMasks == {crs \in SUBSET MaskPixels : Cardinality(crs) <= 2}

\* a | b of two arrays holding 0 and 1
BitOr(a, b) ==
    [dtype |-> IF a.dtype = "bool" /\ b.dtype = "bool" THEN "bool" ELSE "uint8",
     val |-> [px \in MaskPixels |->
                 IF a.val[px] = 0 /\ b.val[px] = 0 THEN 0 ELSE 1]]

\* new_ccd.mask of ccdp.cosmicray_lacosmic(ccd, ...): the mask of ccd plus
\* the boolean array of the detections, in the dtype of the mask
cosmicray_lacosmic(mask, crmask) ==
    [dtype |-> mask.dtype,
     val |-> [px \in MaskPixels |->
                 IF mask.dtype = "bool"
                 THEN IF mask.val[px] # 0 \/ px \in crmask THEN 1 ELSE 0
                 ELSE (mask.val[px] + IF px \in crmask THEN 1 ELSE 0) % 256]]

\* a[index] = False.  A boolean index selects the pixels where it is True;
\* an integer index selects whole rows, those its values name (IndexError
\* when there is no such row).
SetFalse(a, index) ==
    IF index.dtype = "bool"
    THEN [raised |-> "none",
          array |-> [a EXCEPT !.val = [px \in MaskPixels |->
                                         IF index.val[px] # 0 THEN 0 ELSE @[px]]]]
    ELSE LET rows == {index.val[px] : px \in MaskPixels}
         IN  IF \E r \in rows : r >= MaskShape[1]
             THEN [raised |-> "IndexError", array |-> a]
             ELSE [raised |-> "none",
                   array |-> [a EXCEPT !.val = [px \in MaskPixels |->
                                                  IF px[1] \in rows THEN 0
                                                  ELSE @[px]]]]

\* dark_mask and ccdmask_mask are read, joined and put on ccd
ReadMasks(hot, bad) ==
    /\ ns.nb = "none"
    /\ LET dark_mask == AsUint8(hot)
           ccdmask_mask == AsUint8(bad)
           combined_mask == BitOr(dark_mask, ccdmask_mask)
       IN  ns' = [nb |-> "cosmic", cell |-> "ccd.mask",
                  dark_mask |-> dark_mask, ccdmask_mask |-> ccdmask_mask,
                  combined_mask |-> combined_mask,
                  ccd_mask |-> combined_mask]
    /\ UNCHANGED <<GUIDE_RANDOM_SEED, noise_rng, out, calls, hist, kept>>

\* new_ccd = ccdp.cosmicray_lacosmic(ccd, ...) and what it detected
LACosmic(crmask) ==
    /\ ns.nb = "cosmic" /\ ns.cell = "ccd.mask"
    /\ ns' = [nb |-> "cosmic", cell |-> "new_ccd",
              dark_mask |-> ns.dark_mask, ccdmask_mask |-> ns.ccdmask_mask,
              combined_mask |-> ns.combined_mask, ccd_mask |-> ns.ccd_mask,
              detected |-> crmask,
              new_ccd_mask |-> cosmicray_lacosmic(ns.ccd_mask, crmask)]
    /\ UNCHANGED <<GUIDE_RANDOM_SEED, noise_rng, out, calls, hist, kept>>

\* cr_mask = new_ccd.mask; cr_mask[ccd.mask] = False.  cr_mask is the mask
\* of new_ccd itself, not a copy.
CrMask ==
    /\ ns.nb = "cosmic" /\ ns.cell = "new_ccd"
    /\ LET r == SetFalse(ns.new_ccd_mask, ns.ccd_mask)
       IN  ns' = [nb |-> "cosmic", cell |-> "cr_mask",
                  dark_mask |-> ns.dark_mask, ccdmask_mask |-> ns.ccdmask_mask,
                  combined_mask |-> ns.combined_mask, ccd_mask |-> ns.ccd_mask,
                  detected |-> ns.detected,
                  raised |-> r.raised,
                  new_ccd_mask |-> r.array, cr_mask |-> r.array]
    /\ UNCHANGED <<GUIDE_RANDOM_SEED, noise_rng, out, calls, hist, kept>>

\* ccd.mask = new_ccd.mask; ccd.write(...)
SaveMask ==
    /\ ns.nb = "cosmic" /\ ns.cell = "cr_mask" /\ ns.raised = "none"
    /\ ns' = [ns EXCEPT !.cell = "write", !.ccd_mask = ns.new_ccd_mask]
    /\ UNCHANGED <<GUIDE_RANDOM_SEED, noise_rng, out, calls, hist, kept>>

NextCosmic ==
    \/ \E hot \in HotPixelMasks, bad \in CcdmaskMasks : ReadMasks(hot, bad)
    \/ \E crmask \in CrMasks : LACosmic(crmask)
    \/ CrMask
    \/ SaveMask

SpecCosmic == Init /\ [][NextCosmic]_vars

---------------------------------------------------------------------------
(* The workflow Build and Deploy Book: an event starts a run, build_book   *)
(* builds the book and uploads it, deploy_html publishes it.  The run is   *)
(* kept in ns as the notebooks are.  Refs and names are sequences of       *)
(* characters, so that the workflow's comparisons are what they are.       *)

refs_heads_main == <<"r", "e", "f", "s", "/", "h", "e", "a", "d", "s", "/", "m", "a", "i", "n">>

refs_tags == <<"r", "e", "f", "s", "/", "t", "a", "g", "s", "/">>

\* the events the repository sees: pushes of branches and of tags, pull
\* requests against a branch, each with the commit it is about
Events ==
    LET heads == <<"r", "e", "f", "s", "/", "h", "e", "a", "d", "s", "/">>
        pull == <<"r", "e", "f", "s", "/", "p", "u", "l", "l", "/">>
        merge == <<"/", "m", "e", "r", "g", "e">>
        branches == {<<"m", "a", "i", "n">>, <<"t", "a", "g", "s">>,
                     <<"d", "e", "v">>}
        tags == {<<"1", ".", "2", ".", "3">>,
                 <<"1", ".", "2", ".", "3", "r", "c", "1">>,
                 <<"1", "0", ".", "0", ".", "1">>,
                 <<"1", ".", "2">>, <<"v", "1", ".", "2", ".", "3">>,
                 <<"m", "a", "i", "n">>}
        numbers == {<<"7">>, <<"1", "2">>}
        shas == {"c0ffee", "decade"}
    IN  {[event_name |-> "push", ref |-> heads \o b, base_ref |-> <<>>,
          sha |-> s] : b \in branches, s \in shas}
        \cup {[event_name |-> "push", ref |-> refs_tags \o t,
               base_ref |-> <<>>, sha |-> s] : t \in tags, s \in shas}
        \cup {[event_name |-> "pull_request", ref |-> pull \o n \o merge,
               base_ref |-> b, sha |-> s] :
                  n \in numbers, b \in branches, s \in shas}

\* on: push of the branch main, push of a tag that matches
\* '[0-9]+.[0-9]+.[0-9]+[a-z0-9]*' or '[0-9]+.[0-9]+.[0-9]+', pull request
\* against main ([] one character of the set, + one or more of it, * any
\* characters, the rest literally)
on(event) ==
    LET digits == {"0", "1", "2", "3", "4", "5", "6", "7", "8", "9"}
        letters == {"a", "b", "c", "d", "e", "f", "g", "h", "i", "j", "k",
                    "l", "m", "n", "o", "p", "q", "r", "s", "t", "u", "v",
                    "w", "x", "y", "z"}
        ref == event.ref
        name == SubSeq(ref, Len(refs_tags) + 1, Len(ref))
        numbers(from, to) ==
            from <= to /\ \A k \in from .. to : name[k] \in digits
        release(last) ==
            \E i, j \in 1 .. last :
                /\ name[i] = "." /\ name[j] = "."
                /\ numbers(1, i - 1) /\ numbers(i + 1, j - 1)
                /\ numbers(j + 1, last)
    IN  \/ event.event_name = "push" /\ ref = refs_heads_main
        \/ /\ event.event_name = "push"
           /\ SubSeq(ref, 1, Len(refs_tags)) = refs_tags
           /\ \/ \E last \in 1 .. Len(name) - 1 :
                    /\ release(last)
                    /\ name[last + 1] \in letters \cup digits
                    /\ \A k \in last + 2 .. Len(name) : name[k] # "/"
              \/ release(Len(name))
        \/ /\ event.event_name = "pull_request"
           /\ event.base_ref = <<"m", "a", "i", "n">>

\* contains(search, item): item is a substring of search
contains(search, item) ==
    \E i \in 1 .. Len(search) - Len(item) + 1 :
        SubSeq(search, i, i + Len(item) - 1) = item

\* a Deploy job without its condition
deploy_html_always(github) == TRUE

\* if: github.ref == 'refs/heads/main' || contains(github.ref, 'tags')
deploy_html_if(github) ==
    github.ref = refs_heads_main \/ contains(github.ref, <<"t", "a", "g", "s">>)

\* VERSION_NUMBER=${GITHUB_REF#refs/tags/}, dev on main
VERSION_NUMBER(github) ==
    IF github.ref = refs_heads_main THEN <<"d", "e", "v">>
    ELSE IF SubSeq(github.ref, 1, Len(refs_tags)) = refs_tags
         THEN SubSeq(github.ref, Len(refs_tags) + 1, Len(github.ref))
         ELSE github.ref

\* an event the workflow listens to starts a run: both jobs wait
Trigger(event) ==
    /\ ns.nb = "none"
    /\ on(event)
    /\ ns' = [nb |-> "ci_tests", github |-> event,
              build_book |-> "queued", artifact |-> "",
              deploy_html |-> "waiting", env |-> <<>>,
              destination_dir |-> <<>>]
    /\ UNCHANGED <<GUIDE_RANDOM_SEED, noise_rng, out, calls, hist, kept>>

\* build_book ends: with the book uploaded as rendered-book-sha-<sha>, with
\* a failed step, or cancelled by a newer commit on the same ref
build_book(conclusion) ==
    /\ ns.nb = "ci_tests" /\ ns.build_book = "queued"
    /\ ns' = [ns EXCEPT !.build_book = conclusion,
                        !.artifact = IF conclusion = "success"
                                     THEN ns.github.sha ELSE ""]
    /\ UNCHANGED <<GUIDE_RANDOM_SEED, noise_rng, out, calls, hist, kept>>

\* needs: build_book, and the condition: the Deploy job starts (and sets
\* the version number) or is skipped, once build_book has ended
deploy_html_needs ==
    /\ ns.nb = "ci_tests" /\ ns.deploy_html = "waiting"
    /\ ns.build_book # "queued"
    /\ ns' = IF ns.build_book = "success" /\ deploy_html_if(ns.github)
             THEN [ns EXCEPT !.deploy_html = "in_progress",
                             !.env = VERSION_NUMBER(ns.github)]
             ELSE [ns EXCEPT !.deploy_html = "skipped"]
    /\ UNCHANGED <<GUIDE_RANDOM_SEED, noise_rng, out, calls, hist, kept>>

\* the Deploy job ends: the artifact of this commit published under
\* v/<version number>, or a failed step, or cancelled
deploy_html(conclusion) ==
    /\ ns.nb = "ci_tests" /\ ns.deploy_html = "in_progress"
    /\ ns' = [ns EXCEPT !.deploy_html = conclusion,
                        !.destination_dir =
                            IF conclusion = "success" /\ ns.artifact = ns.github.sha
                            THEN <<"v", "/">> \o ns.env ELSE <<>>]
    /\ UNCHANGED <<GUIDE_RANDOM_SEED, noise_rng, out, calls, hist, kept>>

NextWorkflow ==
    \/ \E event \in Events : Trigger(event)
    \/ \E conclusion \in {"success", "failure", "cancelled"} :
          build_book(conclusion)
    \/ deploy_html_needs
    \/ \E conclusion \in {"success", "failure", "cancelled"} :
          deploy_html(conclusion)

SpecWorkflow == Init /\ [][NextWorkflow]_vars

---------------------------------------------------------------------------
(* The cells of the sky flat notebook in a session: a cell reads names and *)
(* assigns names; a name read before it is assigned raises NameError.  The *)
(* raw directory holds the science images, the working directory what a    *)
(* run of the loop has written (in this session or an earlier one).        *)

\* the code cells from top to bottom: the names a cell reads, those the
\* body of its loop reads, those it assigns, and those of them assigned
\* before its last statement
Cells ==
    << [name |-> "import", reads |-> {}, body |-> {}, early |-> {},
        assigns |-> {"Path", "np", "CCDData", "u", "mad_std", "detect_threshold",
                     "detect_sources", "SourceCatalog", "ccdp"}],
       [name |-> "paths", reads |-> {"Path"}, body |-> {}, early |-> {},
        assigns |-> {"ex2_calibrated", "sky_flat_bad_raw", "sky_flat_bad_working"}],
       [name |-> "combined", reads |-> {"CCDData", "ex2_calibrated"}, body |-> {},
        early |-> {}, assigns |-> {"combined_bias", "combined_dark"}],
       [name |-> "loop", reads |-> {"ccdp", "sky_flat_bad_raw"},
        body |-> {"combined_bias", "combined_dark", "u", "detect_threshold",
                  "an_im", "detect_sources", "np", "sky_flat_bad_working"},
        early |-> {"ifc_raw"}, assigns |-> {"ifc_raw"}],
       [name |-> "ifc_working", reads |-> {"ccdp", "sky_flat_bad_working"},
        body |-> {}, early |-> {}, assigns |-> {"ifc_working"}],
       [name |-> "combine", reads |-> {"ifc_working", "np", "ccdp", "mad_std"},
        body |-> {}, early |-> {"to_combine", "inv_median"},
        assigns |-> {"to_combine", "inv_median", "sky_flat"}],
       [name |-> "show_image", reads |-> {}, body |-> {}, early |-> {},
        assigns |-> {"show_image"}],
       [name |-> "an_im", reads |-> {"CCDData", "sky_flat_bad_working"},
        body |-> {}, early |-> {}, assigns |-> {"an_im"}],
       [name |-> "show an_im", reads |-> {"show_image", "an_im"}, body |-> {},
        early |-> {}, assigns |-> {}],
       [name |-> "foo", reads |-> {"detect_threshold", "an_im"}, body |-> {},
        early |-> {}, assigns |-> {"foo"}],
       [name |-> "arf", reads |-> {"detect_sources", "an_im", "foo"}, body |-> {},
        early |-> {}, assigns |-> {"arf"}],
       [name |-> "show arf", reads |-> {"show_image", "arf"}, body |-> {},
        early |-> {}, assigns |-> {}],
       [name |-> "sum", reads |-> {"arf"}, body |-> {}, early |-> {},
        assigns |-> {}],
       [name |-> "moo", reads |-> {"SourceCatalog", "an_im", "arf"}, body |-> {},
        early |-> {}, assigns |-> {"moo"}],
       [name |-> "to_table", reads |-> {"moo"}, body |-> {}, early |-> {},
        assigns |-> {}],
       [name |-> "show sky_flat", reads |-> {"show_image", "sky_flat"},
        body |-> {}, early |-> {}, assigns |-> {}],
       [name |-> "write", reads |-> {"sky_flat"}, body |-> {}, early |-> {},
        assigns |-> {}] >>

\* science images of the night as they are read: a sky of 10 on a bias of
\* 100 and a dark current of 3, with a source on the first pixel, on the
\* last, or none
Science ==
    {Frame(<<403, 113, 113>>), Frame(<<113, 113, 403>>), Frame(<<113, 113, 113>>)}

\* reduced = subtract_dark(subtract_bias(trim_image(ccd), combined_bias),
\*                         combined_dark): the exposure times are equal
subtract_bias_dark(ccd) ==
    [data |-> [p \in 1 .. Len(ccd.data) |->
                  FSub(FSub(ccd.data[p], FromInt(100)), FromInt(3))]]

\* detect_sources(image, detect_threshold(image, 2), 30).data > 0: the
\* pixels above the background by twice its deviation, both taken over the
\* finite pixels of the image (on these small frames a source is one pixel)
detect_sources(image) ==
    LET finite == SelectSeq(image.data, IsFinite)
        thresh == FAdd(nanmedian(finite), FMul(FromInt(2), mad_std(finite)))
    IN  {p \in 1 .. Len(image.data) :
            IsFinite(image.data[p]) /\ FLess(thresh, image.data[p])}

\* the notebook is opened in a fresh session: the raw directory holds the
\* science images; the working directory is empty, or holds the files of an
\* earlier session, written with or without their sources blanked
OpenNotebook(raw, blanked) ==
    /\ ns.nb = "none"
    /\ ns' = [nb |-> "cells", cell |-> 0, top_to_bottom |-> TRUE,
              raised |-> "none", names |-> {}, raw |-> raw,
              an_im |-> Frame(<<>>),
              disk |-> IF blanked = "absent" THEN <<>>
                       ELSE [k \in 1 .. Len(raw) |->
                               LET reduced == subtract_bias_dark(raw[k])
                               IN  [data |-> [p \in 1 .. Len(reduced.data) |->
                                       IF blanked = "yes" /\ p \in detect_sources(reduced)
                                       THEN NaN ELSE reduced.data[p]]]]]
    /\ UNCHANGED <<GUIDE_RANDOM_SEED, noise_rng, out, calls, hist, kept>>

\* a cell is run: the next one, or the loop once more.  The loop writes
\* every science image, reduced and blanked where segm.data > 0 (the cast
\* to float32 keeps these small whole numbers and NaN); the combine cell
\* needs a file (IndexError), the an_im cell the first file
RunCell(c) ==
    /\ ns.nb = "cells"
    /\ c \in 1 .. Len(Cells)
    /\ c = ns.cell + 1 \/ Cells[c].name = "loop"
    /\ LET cell == Cells[c]
           files == IF cell.name = "loop" THEN ns.raw ELSE ns.disk
           raised == IF ~(cell.reads \subseteq ns.names) THEN "NameError"
                     ELSE IF files # <<>> /\ ~(cell.body \subseteq ns.names)
                     THEN "NameError"
                     ELSE IF cell.name = "combine" /\ files = <<>>
                     THEN "IndexError"
                     ELSE IF cell.name = "an_im" /\ files = <<>>
                     THEN "FileNotFoundError"
                     ELSE "none"
           segm == detect_sources(ns.an_im)
       IN  ns' = [ns EXCEPT
                    !.cell = c,
                    !.top_to_bottom = @ /\ c = ns.cell + 1,
                    !.raised = raised,
                    !.names = IF raised = "none" THEN @ \cup cell.assigns
                              ELSE IF cell.reads \subseteq ns.names
                              THEN @ \cup cell.early ELSE @,
                    !.disk = IF cell.name = "loop" /\ raised = "none"
                             THEN [k \in 1 .. Len(ns.raw) |->
                                     LET reduced == subtract_bias_dark(ns.raw[k])
                                     IN  [data |-> [p \in 1 .. Len(reduced.data) |->
                                             IF p \in segm THEN NaN
                                             ELSE reduced.data[p]]]]
                             ELSE @,
                    !.an_im = IF cell.name = "an_im" /\ raised = "none"
                              THEN ns.disk[1] ELSE @]
    /\ UNCHANGED <<GUIDE_RANDOM_SEED, noise_rng, out, calls, hist, kept>>

NextCells ==
    \/ \E n \in 0 .. MaxFrames, blanked \in {"absent", "no", "yes"} :
          \E raw \in [1 .. n -> Science] : OpenNotebook(raw, blanked)
    \/ \E c \in 1 .. Len(Cells) : RunCell(c)

SpecCells == InitSkyFlat /\ [][NextCells]_vars

---------------------------------------------------------------------------
(* What the claims speak of.                                               *)

Returned(r, op) == r.call.op = op /\ r.raised = ""

\* a dark frame with hot pixels was returned
HotCall(r) == Returned(r, "dark_current") /\ r.call.flag

\* a realistic bias frame was asked for
BiasCall(r) == r.call.op = "bias" /\ r.call.flag

\* a noise layer was returned
NoiseCall(r) ==
    \/ Returned(r, "read_noise")
    \/ Returned(r, "dark_current")
    \/ Returned(r, "sky_background")

\* the mean of the Poisson draw of the call is zero
ZeroMean(c) ==
    \/ c.op = "dark_current" /\ RMul(c.a, c.t) = FromInt(0)
    \/ c.op = "sky_background" /\ c.a = FromInt(0)

---------------------------------------------------------------------------
(* The claims.                                                             *)

\* C1: dark_current(image, current, exposure_time, hot_pixels=True) gives
\* exactly floor(0.0001 * width * height) distinct hot pixels, for every
\* shape.  The code draws that many positions, with replacement.
C1_HotPixelCount ==
    HotCall(out) =>
        Cardinality(out.array.pts) = (out.call.shape[1] * out.call.shape[2]) \div 10000

\* C2: for a fixed shape the hot pixels of dark_current are the same on
\* every call, whatever current, exposure_time and gain are, whatever state
\* noise_rng is in, and whatever was called before, in this session or in
\* an earlier one.
C2_HotPixelsFixed ==
    (HotCall(out) /\ HotCall(kept.out) /\ out.call.shape = kept.out.call.shape)
        => out.array.pts = kept.out.array.pts

C2_Witness ==
    /\ HotCall(out) /\ HotCall(kept.out)
    /\ out.call.shape = kept.out.call.shape
    /\ out.array.pts # {}
    /\ out.call.a # kept.out.call.a
    /\ out.before # kept.out.before
    /\ out.before.pos > 0

\* C3: bias(image, value, realistic=True) gives the same result in any two
\* sessions, after any calls made before it: the same bad columns and the
\* same values in them.
C3_BiasStable ==
    (BiasCall(out) /\ BiasCall(kept.out) /\ out.call = kept.out.call)
        => out.raised = kept.out.raised /\ out.array = kept.out.array

C3_Witness ==
    /\ BiasCall(out) /\ BiasCall(kept.out)
    /\ out.call = kept.out.call
    /\ out.raised = ""
    /\ out.array.cols # {}
    /\ GUIDE_RANDOM_SEED # kept.seed
    /\ out.before.pos # kept.out.before.pos

\* C4: the stable layers leave the shared generator alone: a realistic
\* bias leaves noise_rng as it was, and dark_current with hot pixels leaves
\* it where the same call without hot pixels leaves it.
C4_DefectsDecoupled ==
    /\ BiasCall(out) => out.after = out.before
    /\ HotCall(out) =>
           out.after = dark_current(zeros(out.call.shape), out.call.a, out.call.t,
                                    out.call.g, FALSE, out.before).rng

C4_Witness ==
    /\ HotCall(out)
    /\ out.array.pts # {}
    /\ out.after # out.before

\* C5: two sessions started with the same GUIDE_RANDOM_SEED that make the
\* same calls of read_noise, dark_current and sky_background in the same
\* order get the same array at every call.
C5_SeededRunsAgree ==
    (kept.seed.set /\ GUIDE_RANDOM_SEED = kept.seed /\ hist = kept.hist /\ hist # <<>>)
        => out.raised = kept.out.raised /\ out.array = kept.out.array

C5_Witness ==
    /\ kept.seed.set /\ GUIDE_RANDOM_SEED = kept.seed
    /\ hist = kept.hist
    /\ Len(hist) >= 2
    /\ out.array.kind # "const"
    /\ out.before.pos > 0

C7_NegativeRejected ==
    (out.call.op \in {"read_noise", "dark_current"} /\ RLess(out.call.a, FromInt(0)))
        => out.raised # ""

\* C8: dark_current with exposure_time <= 0 raises.
C8_NonPositiveExposureRejected ==
    (out.call.op = "dark_current" /\ ~RLess(FromInt(0), out.call.t))
        => out.raised # ""

\* C9: every hot pixel of dark_current holds
\* 10000 * current * exposure_time / gain.
C9_HotValue ==
    HotCall(out) =>
        \A p \in out.array.pts :
            Pixel(out.array, p[1], p[2]).val =
                RDiv(RMul(RMul(FromInt(10000), out.call.a), out.call.t), out.call.g)

\* C10: bias(image, value, realistic) returns, for every positive value, an
\* array of the image's shape: value everywhere outside the bad columns,
\* which exist only when realistic, and value plus an offset of
\* 0 <= offset < 0.1 * value inside them.
C10_BiasImage ==
    (out.call.op = "bias" /\ RLess(FromInt(0), out.call.a)) =>
        /\ out.raised = ""
        /\ out.array.shape = out.call.shape
        /\ ~out.call.flag => out.array.cols = {}
        /\ \A p \in Pixels(out.array) :
               LET v == Pixel(out.array, p[1], p[2]).val
               IN  IF p[2] \in out.array.cols
                   THEN /\ ~RLess(v, out.call.a)
                        /\ RLess(v, RAdd(out.call.a, RMul(Rat(1, 10), out.call.a)))
                   ELSE v = out.call.a

\* C11: the realistic composite frame is, at every pixel,
\* bias + read_noise + dark_current + flat * (sky + sources): taking the
\* flat-multiplied light away leaves bias, read noise and dark current as
\* they were made, whatever the flat is.
C11_Composition ==
    /\ (ns.nb = "nonuniform" /\ ns.cell \in {"final_image", "final_image2"}) =>
           RSub(ns.final_image, RMul(ns.flat, RAdd(ns.sky_only, ns.stars_only)))
             = RAdd(ns.bias_only, RAdd(ns.noise_only, ns.dark_only))
    /\ (ns.nb = "nonuniform" /\ ns.cell = "final_image2") =>
           RSub(ns.final_image2, RMul(ns.flat, RAdd(ns.sky2, ns.stars_only)))
             = RAdd(ns.bias_only, RAdd(ns.noise_only, ns.dark_only))

C11_Witness ==
    /\ ns.nb = "nonuniform" /\ ns.cell = "final_image"
    /\ ns.hot
    /\ ns.flat # FromInt(1)
    /\ ns.stars_only # FromInt(0)
    /\ ns.noise_only # FromInt(0)

\* C12: for a raw image composed as bias + noise + dark current
\* + flat * (sky + stars), (raw image - bias - dark current) / flat - sky
\* equals stars + noise; and calibrated_stars equals the star layer put into
\* realistic_stars when every noise draw is zero.
C12_CalibrationRecovers ==
    /\ (ns.nb = "nonuniform" /\ ns.cell = "final_image") =>
           RSub(RDiv(RSub(RSub(ns.final_image, ns.bias_only), ns.dark_only), ns.flat),
                ns.sky_only)
             = RAdd(ns.stars_only, ns.noise_only)
    /\ (/\ ns.nb = "calibration" /\ ns.cell = "calibrated_stars"
        /\ \A i \in 1 .. Len(ns.drawn) : ns.drawn[i] = FromInt(0)) =>
           ns.calibrated_stars = ns.stars

\* C13: every parameter of complete_image has an effect on the image
\* shown: for each of the seven there are two settings that differ in it
\* alone and, from the same state of noise_rng, give different images.
C13_EveryParameterMatters ==
    \A k \in 1 .. 7 :
        \E P \in DemoSettings, Q \in DemoSettings :
            /\ \A j \in 1 .. 7 : (j # k) <=> (P[j] = Q[j])
            /\ Interactive(P, noise_rng).shown # Interactive(Q, noise_rng).shown

\* C14: combining the frames of the working directory in another order
\* gives the same combined image and mask, for the average and the median,
\* with and without sigma clipping, with and without the inv_median scale.
C14_OrderIndependent ==
    (ns.nb = "skyflat" /\ ns.cell = "reorder") => ns.sky_flat = ns.before

C14_Witness ==
    /\ ns.nb = "skyflat" /\ ns.cell = "reorder"
    /\ ns.working[1] # ns.working[2]
    /\ ns.args[2] = "inv_median" /\ ns.args[3]
    /\ \E p \in 1 .. 3 : ns.sky_flat.data[p] \notin {NaN, FromInt(1)}

\* the frame hit by a cosmic ray, at its first pixel
CosmicRay == Frame(<<5000, 10, 10>>)

\* the mean or median of the scaled samples the frames hold at pixel p
StatisticAt(frames, p, method, scale) ==
    LET samples == [i \in 1 .. Len(frames) |->
                       FMul(frames[i].data[p], scalings(frames, scale)[i])]
    IN  IF method = "median" THEN nanmedian(samples) ELSE nanmean(samples)

\* the combine cell has run on a group of at least n frames of which
\* exactly one is the frame with the cosmic ray
OneOutlier(n) ==
    /\ ns.nb = "skyflat" /\ ns.cell = "combine"
    /\ Len(ns.working) >= n
    /\ Cardinality({i \in 1 .. Len(ns.working) : ns.working[i] = CosmicRay}) = 1

OtherFrames == SelectSeq(ns.working, LAMBDA frame : frame # CosmicRay)

\* the other frames whose sample at pixel p lies within three deviations
\* of the centre of all the samples at p
Survivors(p) ==
    LET column == [i \in 1 .. Len(ns.working) |-> ns.working[i].data[p]]
        centre == nanmedian(column)
        reach == FMul(FromInt(3), mad_std(column))
    IN  SelectSeq(OtherFrames,
                  LAMBDA frame : /\ ~FLess(frame.data[p], FSub(centre, reach))
                                 /\ ~FLess(FAdd(centre, reach), frame.data[p]))

ScaledFrame(frame) ==
    [p \in 1 .. Len(frame.data) |-> FMul(frame.data[p], inv_median(frame.data))]

\* C16: with scale=inv_median every scaled frame has median 1, and two
\* frames with medians 10 and 20 average to a frame whose median is 1.
C16_ScaledToUnitMedian ==
    (ns.nb = "skyflat" /\ ns.cell = "combine" /\ ns.args[2] = "inv_median") =>
        /\ \A i \in 1 .. Len(ns.working) :
              nanmedian(ScaledFrame(ns.working[i])) = FromInt(1)
        /\ ( /\ Len(ns.working) = 2
             /\ ns.args[1] = "average"
             /\ nanmedian(ns.working[1].data) = FromInt(10)
             /\ nanmedian(ns.working[2].data) = FromInt(20) ) =>
               nanmedian(ns.sky_flat.data) = FromInt(1)

\* C17: when inv_median yields zero or an infinity for a frame of the
\* group, the combine call raises and no combined image is produced.
C17_BadScaleRejected ==
    ( /\ ns.nb = "skyflat" /\ ns.cell = "combine" /\ ns.args[2] = "inv_median"
      /\ \E i \in 1 .. Len(ns.working) :
            inv_median(ns.working[i].data) \in {FromInt(0), <<1, 0>>, <<-1, 0>>} ) =>
        ns.sky_flat.raised # "none"

SingleFrame ==
    /\ ns.nb = "skyflat" /\ ns.cell = "combine"
    /\ Len(ns.working) = 1 /\ ns.args[3]

C20_EmptyGroupRejected ==
    (ns.nb = "skyflat" /\ ns.cell = "combine" /\ ns.working = <<>>) =>
        /\ ns.sky_flat.raised # "none"
        /\ ns.sky_flat.data = <<>>

C20_Witness ==
    /\ ns.nb = "skyflat" /\ ns.cell = "combine" /\ ns.working = <<>>
    /\ ns.sky_flat.raised = "IndexError"

\* C21: whatever tiles the memory limit cuts the frames into, the combined
\* image and its mask are those of the combination in one piece, every tile
\* is combined with the factors of the whole frames, and the same samples
\* are clipped at every pixel.
C21_TilingInvisible ==
    (ns.nb = "skyflat" /\ ns.cell = "combine_tiled" /\ ns.working # <<>>) =>
        LET whole == combine(ns.working, ns.args[1], ns.args[2], ns.args[3])
            column(p) == [i \in 1 .. Len(ns.working) |-> ns.working[i].data[p]]
        IN  /\ ns.sky_flat.raised = whole.raised
            /\ ns.sky_flat.data = whole.data
            /\ ns.sky_flat.mask = whole.mask
            /\ \A t \in 1 .. Len(ns.tiling) :
                  ns.sky_flat.scaling[t] = scalings(ns.working, ns.args[2])
            /\ \A p \in 1 .. Len(whole.data) :
                  ns.sky_flat.clipped[p]
                    = IF ns.args[3] THEN sigma_clipping(column(p))
                      ELSE [i \in 1 .. Len(ns.working) |-> FALSE]

C21_Witness ==
    /\ ns.nb = "skyflat" /\ ns.cell = "combine_tiled"
    /\ Len(ns.working) = 3 /\ Len(ns.tiling) = 3
    /\ ns.args[2] = "inv_median" /\ ns.args[3]
    /\ \E p \in 1 .. 3 : \E i \in 1 .. 3 :
          ns.sky_flat.clipped[p][i] /\ ~ns.sky_flat.mask[p]
    /\ ns.sky_flat.scaling[1][1] # ns.sky_flat.scaling[1][2]

\* the frames of the group whose sample at pixel p enters the statistic:
\* not blanked by the partial calibration and not clipped
Contributing(p) ==
    LET column == [i \in 1 .. Len(ns.working) |-> ns.working[i].data[p]]
        clipped == IF ns.args[3] THEN sigma_clipping(column)
                   ELSE [i \in 1 .. Len(ns.working) |-> FALSE]
    IN  {i \in 1 .. Len(ns.working) : column[i] # NaN /\ ~clipped[i]}

C24_FullMaskSaved ==
    (ns.nb = "cosmic" /\ ns.cell = "write") =>
        \A px \in MaskPixels :
            ( \/ px \in ns.detected
              \/ ns.dark_mask.val[px] # 0
              \/ ns.ccdmask_mask.val[px] # 0 ) => ns.ccd_mask.val[px] # 0

\* a step of the clipping loop: what is excluded stays excluded, a pass
\* after which the loop goes on has excluded at least one more sample, and
\* no more than maxiters passes are made
ClipStep ==
    (ns.nb = "skyflat" /\ ns.cell = "clipping" /\ ns'.cell \in {"clipping", "clipped"}) =>
        /\ \A p \in 1 .. Len(ns.clipped) : \A i \in 1 .. Len(ns.working) :
              ns.clipped[p][i] => ns'.clipped[p][i]
        /\ ns'.iteration <= ns.maxiters
        /\ (ns'.iteration > ns.iteration /\ GoesOn') =>
              Excluded(ns'.clipped) > Excluded(ns.clipped)
        /\ ns'.cell = "clipped" =>
              \/ ns.iteration = ns.maxiters
              \/ clip_pass(ns.working, ns.clipped) = ns.clipped

\* C25: the clipping loop ends for every stack, at a fixed point or at the
\* maximum number of passes; an excluded sample never comes back and every
\* pass after which the loop goes on excludes at least one more sample.
C25_ClippingTerminates ==
    /\ [][ClipStep]_vars
    /\ (ns.nb = "skyflat" /\ ns.cell = "clipping")
          ~> (ns.nb = "skyflat" /\ ns.cell = "clipped")

C25_Witness ==
    /\ ns.nb = "skyflat" /\ ns.cell = "clipped"
    /\ ns.iteration = 2 /\ ns.nchanged = 0
    /\ \E p \in 1 .. Len(ns.clipped) : \E i, j \in 1 .. Len(ns.working) :
          /\ ns.clipped[p][i] /\ IsFinite(ns.working[i].data[p])
          /\ ~ns.clipped[p][j]

\* C26: clipping is independent per pixel position.  The samples excluded
\* at pixel p and the combined value at p depend only on the scaled values
\* of the stack at p: a group that differs from the one combined in one
\* frame and has the same scaled values at p has the same excluded samples
\* and the same combined value at p, whatever its values elsewhere.
C26_PerPixelIndependent ==
    (ns.nb = "skyflat" /\ ns.cell = "combine" /\ ns.sky_flat.raised = "none") =>
        LET scaled_at(img_list, p) ==
                [i \in 1 .. Len(img_list) |->
                    FMul(img_list[i].data[p], scalings(img_list, ns.args[2])[i])]
            result(img_list) ==
                Combiner(img_list, ns.args[1], scalings(img_list, ns.args[2]),
                         ns.args[3])
        IN  \A i \in 1 .. Len(ns.working), other \in Reduced :
                LET changed == [ns.working EXCEPT ![i] = other]
                IN  \A p \in 1 .. Len(ns.sky_flat.data) :
                        scaled_at(changed, p) = scaled_at(ns.working, p) =>
                            /\ result(changed)[p].clipped
                                 = result(ns.working)[p].clipped
                            /\ result(changed)[p].value
                                 = result(ns.working)[p].value

\* C27: the Deploy job has started only when build_book of the run has
\* succeeded and the ref is the main branch or a tag; a run for a pull
\* request never deploys; what is deployed goes to v/dev for main and to
\* v/<tag name> for a tag.
C27_DeployAfterBuild ==
    (ns.nb = "ci_tests" /\ ns.deploy_html \notin {"waiting", "skipped"}) =>
        LET ref == ns.github.ref
            tag == SubSeq(ref, 1, Len(refs_tags)) = refs_tags
        IN  /\ ns.build_book = "success"
            /\ ns.artifact = ns.github.sha
            /\ ref = refs_heads_main \/ tag
            /\ ns.github.event_name # "pull_request"
            /\ ns.deploy_html = "success" =>
                  ns.destination_dir
                    = IF ref = refs_heads_main
                      THEN <<"v", "/", "d", "e", "v">>
                      ELSE <<"v", "/">> \o SubSeq(ref, Len(refs_tags) + 1, Len(ref))

C27_Witness ==
    /\ ns.nb = "ci_tests" /\ ns.deploy_html = "success"
    /\ ns.destination_dir = <<"v", "/", "1", ".", "2", ".", "3", "r", "c", "1">>

\* C28: in a fresh session whose cells are run from top to bottom, every
\* name a cell reads was assigned by an earlier cell: no cell raises
\* NameError (an_im is there when the loop reads it).
C28_NamesDefined ==
    (ns.nb = "cells" /\ ns.top_to_bottom) => ns.raised # "NameError"

\* C29: when the partial calibration loop has run, every science image has
\* its file, and the pixels that are NaN in the file are exactly the
\* sources detected in that image after bias and dark were subtracted.
C29_OwnSourcesBlanked ==
    (/\ ns.nb = "cells" /\ ns.cell > 0
     /\ Cells[ns.cell].name = "loop" /\ ns.raised = "none") =>
        /\ Len(ns.disk) = Len(ns.raw)
        /\ \A k \in 1 .. Len(ns.raw) :
              {p \in 1 .. Len(ns.disk[k].data) : ns.disk[k].data[p] = NaN}
                = detect_sources(subtract_bias_dark(ns.raw[k]))

\* C30: stars(image, number, max_counts) does not depend on the shared
\* generator and leaves it where it was: a call returns what the last such
\* call of the session before returned, wherever noise_rng stood, and
\* every flux lies between a tenth of the maximum flux and the maximum flux.
C30_StarsDeterministic ==
    Returned(out, "stars") =>
        /\ out.after = out.before
        /\ (Returned(kept.out, "stars") /\ kept.out.call = out.call) =>
              kept.out.array = out.array
        /\ LET maximum == RMul(out.call.a, FromInt(100))
               table == params(zeros(out.call.shape), out.call.t[1],
                               out.call.a[1])
           IN  /\ table.from = out.array.from
               /\ \A u \in UniformDraws :
                     /\ ~RLess(table.flux[u], RDiv(maximum, FromInt(10)))
                     /\ ~RLess(maximum, table.flux[u])

C30_Witness ==
    /\ Returned(out, "stars") /\ Returned(kept.out, "stars")
    /\ kept.out.call = out.call
    /\ out.call.a = FromInt(2000)
    /\ kept.out.before # out.before
    /\ out.before.pos > 0
====
